---- MODULE Spec2Model ----
(***************************************************************************)
(* Model of the stepwise plan executor of src/agents/admin_validator.py:   *)
(* UnrestrictedJiraAgent.process (safety gate, fail-fast step loop,        *)
(* context store, result assembly), _substitute_context_variables and      *)
(* GenericJiraAPI.execute_api_call; and of src/main.py: the webhook        *)
(* endpoints, the job queue, worker_loop and process_with_agent.           *)
(*                                                                         *)
(* Python dicts are records; a key that a dict may lack is a field the     *)
(* record may lack, read with the default the code gives to .get().        *)
(* A JSON scalar is [t, n, s]; a string is a sequence of tokens, each a    *)
(* literal piece of text or one placeholder {{step_<n>_<field>}}.          *)
(***************************************************************************)
EXTENDS Integers, Sequences, FiniteSets, TLC

VARIABLES
    pc,                 \* where process() is: entry, pending, loop, calling, post,
                        \* done (returned) or raised (left by an exception)
    issue_key,          \* issue_data["key"], line 151
    ai_response,        \* what call_ollama returned
    i,                  \* position in the plan of the step the loop is at
    execution_results,  \* the list built at lines 187-224
    context,            \* the context dict of line 188, in insertion order
    inflight,           \* the call execute_api_call is working on
    calls,              \* history: every call handed to execute_api_call
    returned,           \* history: what execute_api_call returned for each step call
    ret,                \* the value process() returned
    sub_pc,             \* _substitute_context_variables alone: idle, ready, done
    sub_in,             \* its api_call argument, as an object with an identity
    sub_ctx,            \* its context argument
    sub_out,            \* the object it returned
    conc_pc,            \* two runs on one agent instance: where each run is
    conc_plan,          \* the plan of each run
    conc_i,             \* each run's position in its plan
    conc_store,         \* the context dicts that exist, by where they live
    conc_sent,          \* history: the resolved api_call of each call of each run
    conc_got,           \* history: the bodies each run's successful calls returned
    available_agents,   \* main.py: the agents that were initialised, line 47
    jobs,               \* main.py: the background job queue, line 44
    worker_pc,          \* each worker thread: at jobs.get ("get") or handling a job ("job")
    worker_job,         \* the job each worker thread is handling
    last_response,      \* what the last webhook request was and how it was answered
    enqueued,           \* history: every job put on the queue, with its endpoint
    taken,              \* history: the ids of the jobs jobs.get returned, in order
    handled,            \* history: what process_with_agent did for each job
    task_done,          \* history: the ids of the jobs task_done was called for
    dispatch,           \* main.py lines 146-171 alone, for an agent object of any shape
    planning,           \* planner.py: the issue plan() was given and what it did
    config,             \* config.py: the environment and the Config built from it
    gov                 \* governance_bot.py: one call of GovernanceBot.process

runvars == <<pc, issue_key, ai_response, i, execution_results, context, inflight, calls,
             returned, ret>>

subvars == <<sub_pc, sub_in, sub_ctx, sub_out>>

concvars == <<conc_pc, conc_plan, conc_i, conc_store, conc_sent, conc_got>>

srvvars == <<available_agents, jobs, worker_pc, worker_job, last_response, enqueued, taken,
             handled, task_done>>

fnvars == <<dispatch, planning, config, gov>>

vars == <<runvars, subvars, concvars, srvvars, fnvars>>

(* Longest plan the planner returns in the model. *)
MaxSteps == 3

----------------------------------------------------------------------------
(* JSON values *)

JInt(n) == [t |-> "int", n |-> n, s |-> <<>>]
JStr(toks) == [t |-> "str", n |-> 0, s |-> toks]
JNull == [t |-> "null", n |-> 0, s |-> <<>>]

(* The context key f"step_{step_num}_{field}". *)
CtxKey(step_num, field) == [step |-> step_num, field |-> field]

Lit(text) == [ph |-> FALSE, text |-> text, key |-> CtxKey(0, "")]
Ph(key) == [ph |-> TRUE, text |-> "", key |-> key]

(* A response body (response_data).  kind is its JSON type; has is the set *)
(* of names x among id, key for which Python's `x in data` is true (a      *)
(* top-level key of an object, an element of an array, a substring of a    *)
(* string); id and key are the values of an object's fields; rest stands   *)
(* for the remainder of the body.                                          *)
Body(kind, has, id, key, rest) ==
    [kind |-> kind, has |-> has, id |-> id, key |-> key, rest |-> rest]

ObjBoth == Body("object", {"id", "key"}, JInt(1001), JStr(<<Lit("K1")>>), "a")
ObjId == Body("object", {"id"}, JInt(1002), JNull, "b")
ObjKey == Body("object", {"key"}, JNull, JStr(<<Lit("K2")>>), "c")
ObjEmpty == Body("object", {}, JNull, JNull, "")
ArrWithId == Body("array", {"id"}, JNull, JNull, "names")
StrBody == Body("string", {}, JNull, JNull, "ok")
NumBody == Body("number", {}, JNull, JNull, "7")
NullBody == Body("null", {}, JNull, JNull, "null")
(* {"raw_response": text}, the stand-in for a body that is not JSON. *)
RawResponse == Body("object", {}, JNull, JNull, "raw_response")

----------------------------------------------------------------------------
(* Python helpers *)

(* d.get(k, default) for a dict d modelled as a record. *)
Get(d, k, default) == IF k \in DOMAIN d THEN d[k] ELSE default

(* method.upper() *)
Upper(method) ==
    CASE method = "delete" -> "DELETE"
      [] method = "Delete" -> "DELETE"
      [] method = "get" -> "GET"
      [] method = "post" -> "POST"
      [] method = "put" -> "PUT"
      [] OTHER -> method

(* The index of key k in the insertion-ordered dict c, 0 when absent. *)
CtxIndex(c, k) ==
    IF \E j \in 1..Len(c) : c[j].k = k
    THEN CHOOSE j \in 1..Len(c) : c[j].k = k
    ELSE 0

CtxHas(c, k) == CtxIndex(c, k) # 0

CtxGet(c, k) == c[CtxIndex(c, k)].v

CtxKeys(c) == {c[j].k : j \in 1..Len(c)}

(* c[k] = v on a Python dict: a new key is appended, an existing key keeps *)
(* its position and takes the new value.                                   *)
CtxSet(c, k, v) ==
    IF CtxHas(c, k)
    THEN [c EXCEPT ![CtxIndex(c, k)] = [k |-> k, v |-> v]]
    ELSE Append(c, [k |-> k, v |-> v])

----------------------------------------------------------------------------
(* _substitute_context_variables *)

HasPlaceholder(toks) == \E j \in 1..Len(toks) : toks[j].ph

IsSpace(tok) == ~tok.ph /\ tok.text = " "

RECURSIVE LStrip(_)
LStrip(toks) ==
    IF toks # <<>> /\ IsSpace(Head(toks)) THEN LStrip(Tail(toks)) ELSE toks

RECURSIVE RStrip(_)
RStrip(toks) ==
    IF toks # <<>> /\ IsSpace(toks[Len(toks)])
    THEN RStrip(SubSeq(toks, 1, Len(toks) - 1))
    ELSE toks

(* value.strip() *)
Strip(toks) == RStrip(LStrip(toks))

(* str(ctx_value) as the tokens of the resulting text. *)
StrOf(v) ==
    IF "kind" \in DOMAIN v THEN <<Lit("repr:" \o v.kind \o ":" \o v.rest)>>
    ELSE CASE v.t = "int" -> <<Lit(ToString(v.n))>>
           [] v.t = "str" -> v.s
           [] OTHER -> <<Lit("None")>>

(* value.replace(placeholder, text) *)
RECURSIVE ReplaceToken(_, _, _)
ReplaceToken(toks, key, text) ==
    IF toks = <<>> THEN <<>>
    ELSE IF Head(toks).ph /\ Head(toks).key = key
         THEN text \o ReplaceToken(Tail(toks), key, text)
         ELSE <<Head(toks)>> \o ReplaceToken(Tail(toks), key, text)

(* The loop `for key, ctx_value in context.items()` from entry j on. *)
RECURSIVE ReplaceFrom(_, _, _)
ReplaceFrom(toks, c, j) ==
    IF j > Len(c) THEN JStr(toks)
    ELSE IF \E m \in 1..Len(toks) : toks[m].ph /\ toks[m].key = c[j].k
         THEN IF Strip(toks) = <<Ph(c[j].k)>>
              THEN c[j].v
              ELSE ReplaceFrom(ReplaceToken(toks, c[j].k, StrOf(c[j].v)), c, j + 1)
         ELSE ReplaceFrom(toks, c, j + 1)

(* Variant: a placeholder that is still unresolved is rendered as nothing. *)
replace_in_value_DropUnknown(value, c) ==
    IF "t" \in DOMAIN value /\ value.t = "str" /\ HasPlaceholder(value.s)
    THEN LET r == ReplaceFrom(value.s, c, 1)
         IN  IF "t" \in DOMAIN r /\ r.t = "str"
             THEN JStr(SelectSeq(r.s, LAMBDA tok : ~tok.ph))
             ELSE r
    ELSE value

(* Lines 257-272 for a scalar leaf. *)
replace_in_value(value, c) ==
    IF "t" \in DOMAIN value /\ value.t = "str" /\ HasPlaceholder(value.s)
    THEN ReplaceFrom(value.s, c, 1)
    ELSE value

(* Line 269 for a dict whose values are leaves (the payload). *)
ReplaceLeaves(d, c) == [g \in DOMAIN d |-> replace_in_value(d[g], c)]

substitute_context_variables(api_call, c) ==
    IF c = <<>> THEN api_call
    ELSE [f \in DOMAIN api_call |->
            CASE f = "method" -> api_call[f]
              [] f = "payload" -> ReplaceLeaves(api_call[f], c)
              [] OTHER -> replace_in_value(api_call[f], c)]

(* Lines 252-255: which object comes back.  With an empty context it is    *)
(* the argument itself; otherwise the copy made by copy.deepcopy.          *)
SubstituteRef(ref, c) == IF c = <<>> THEN ref ELSE "deepcopy"

----------------------------------------------------------------------------
(* Inputs: what the planner and the Jira server may answer *)

Plain == JStr(<<Lit("/rest/api/3/field")>>)
Embedded == JStr(<<Lit("/rest/api/3/field/"), Ph(CtxKey(1, "id")), Lit("/contexts")>>)
Exact == JStr(<<Ph(CtxKey(1, "id"))>>)

(* Plan entries: with an explicit 'step' number or without one, with and   *)
(* without a method, destructive or not.                                   *)
StepChoices ==
    { [step |-> 1, description |-> "create", api_call |-> [method |-> "POST", endpoint |-> Plain]],
      [step |-> 2, description |-> "contexts", api_call |-> [method |-> "GET", endpoint |-> Embedded]],
      [description |-> "read", api_call |-> [endpoint |-> Exact]],
      [step |-> 1, description |-> "remove", api_call |-> [method |-> "DELETE", endpoint |-> Embedded]] }

Plans == UNION {[1..n -> StepChoices] : n \in 0..MaxSteps}

SafetyChoices == {<<>>, <<"confirm before deleting">>}

(* call_ollama's return value: not a dict, a dict without 'plan', or a     *)
(* plan with or without the 'safety_checks' key.                           *)
AiResponses ==
    {[notdict |-> "no json"]}
    \cup {[understanding |-> "u"]}
    \cup {[understanding |-> "u", plan |-> p, expected_outcome |-> "e"] : p \in Plans}
    \cup {[understanding |-> "u", plan |-> p, safety_checks |-> sc, expected_outcome |-> "e"] :
            p \in Plans, sc \in SafetyChoices}

(* The HTTP responses of the server: a status code and a text that is     *)
(* JSON (body is what it parses to), empty, or not JSON at all.            *)
Responses ==
    {[status_code |-> 200, form |-> "json", body |-> b] :
        b \in {ObjBoth, ObjId, StrBody, ArrWithId, NumBody, NullBody}}
    \cup {[status_code |-> 200, form |-> "empty", body |-> NullBody]}
    \cup {[status_code |-> 200, form |-> "garbage", body |-> NullBody]}
    \cup {[status_code |-> 404, form |-> "json", body |-> ObjBoth]}

(* Lines 63-66: response.json() if response.text else {}, and             *)
(* {"raw_response": response.text} when the text does not parse.           *)
ParseBody(r) ==
    CASE r.form = "empty" -> ObjEmpty
      [] r.form = "json" -> r.body
      [] OTHER -> RawResponse

(* Variant: every status below 500 counts as success. *)
Succeeded_Below500(status_code) == status_code < 500

(* Line 69: "success": response.status_code < 400. *)
Succeeded(status_code) == status_code < 400

IssueKey == "ADMIN-1"

----------------------------------------------------------------------------
(* GenericJiraAPI.execute_api_call: the results it can return for a call.  *)
(* A non-string endpoint raises inside the try block before any request is *)
(* made; otherwise the request is answered or the transport fails.         *)
ExecResults(call) ==
    IF call.endpoint.t # "str"
    THEN {[success |-> FALSE, error |-> "AttributeError"]}
    ELSE {[success |-> Succeeded(r.status_code), status_code |-> r.status_code,
           data |-> ParseBody(r)] : r \in Responses}
         \cup {[success |-> FALSE, error |-> "ConnectionError"]}

(* `name in data`: TRUE, FALSE, or a TypeError for a number or null. *)
InRaises(data) == data.kind \in {"number", "null"}
In(name, data) == name \in data.has
(* data[name] raises a TypeError unless data is a mapping. *)
ItemRaises(data) == data.kind # "object"

(* Lines 209-215: the context after storing data for step_num, and whether *)
(* a TypeError was raised on the way.                                      *)
StoreContext(c, step_num, data) ==
    IF InRaises(data) THEN [raised |-> TRUE, context |-> c]
    ELSE IF In("id", data) /\ ItemRaises(data) THEN [raised |-> TRUE, context |-> c]
    ELSE LET c1 == IF In("id", data) THEN CtxSet(c, CtxKey(step_num, "id"), data.id) ELSE c
         IN  IF In("key", data) /\ ItemRaises(data) THEN [raised |-> TRUE, context |-> c1]
             ELSE LET c2 == IF In("key", data)
                            THEN CtxSet(c1, CtxKey(step_num, "key"), data.key)
                            ELSE c1
                  IN  [raised |-> FALSE,
                       context |-> CtxSet(c2, CtxKey(step_num, "result"), data)]

(* Variant: the gate looks at the first step of the plan only. *)
SafetyBlocked_FirstStepOnly(ai) ==
    LET safety_checks == Get(ai, "safety_checks", <<>>)
        plan == Get(ai, "plan", <<>>)
    IN  /\ safety_checks # <<>>
        /\ Len(plan) > 0
        /\ Get(Get(plan[1], "api_call", [none |-> TRUE]), "method", "None") = "DELETE"

(* Variant: the gate fires on any DELETE step, with or without checks. *)
SafetyBlocked_AnyDelete(ai) ==
    LET plan == Get(ai, "plan", <<>>)
    IN  \E j \in 1..Len(plan) :
            Get(Get(plan[j], "api_call", [none |-> TRUE]), "method", "None") = "DELETE"

(* The safety gate, lines 173-184: TRUE when the run is blocked. *)
SafetyBlocked(ai) ==
    LET safety_checks == Get(ai, "safety_checks", <<>>)
        plan == Get(ai, "plan", <<>>)
    IN  /\ safety_checks # <<>>
        /\ \E j \in 1..Len(plan) :
              Get(Get(plan[j], "api_call", [none |-> TRUE]), "method", "None") = "DELETE"

(* Variant: the error object does not carry the planner's answer. *)
PlanErrorResult_NoRaw(ai) == [error |-> "AI failed to create execution plan"]

(* Line 167: what a run without a usable plan returns. *)
PlanErrorResult(ai) ==
    [error |-> "AI failed to create execution plan", raw_response |-> ai]

(* Variant: the blocked record leaves the plan out. *)
BlockedResult_NoPlan(ai) ==
    [status |-> "blocked",
     reason |-> "DELETE operation requires explicit confirmation",
     safety_checks |-> Get(ai, "safety_checks", <<>>)]

(* Lines 179-184: what a blocked run returns. *)
BlockedResult(ai) ==
    [status |-> "blocked",
     reason |-> "DELETE operation requires explicit confirmation",
     safety_checks |-> Get(ai, "safety_checks", <<>>),
     plan |-> Get(ai, "plan", [none |-> TRUE])]

(* Variant: the loop has no break. *)
StopOnFailure_Never(result) == FALSE

(* Lines 227-229: `if not result.get("success"): break`. *)
StopOnFailure(result) == ~Get(result, "success", FALSE)

(* Variant: a step result counts as soon as it has a 'success' entry. *)
SuccessCount_KeyPresent(results) ==
    Cardinality({j \in 1..Len(results) : "success" \in DOMAIN results[j]})

(* Variant: every attempted step is counted as completed. *)
SuccessCount_Attempted(results) == Len(results)

(* Line 240: len([r for r in execution_results if r.get("success")]). *)
SuccessCount(results) == Cardinality({j \in 1..Len(results) : results[j].success})

----------------------------------------------------------------------------
(* UnrestrictedJiraAgent.process *)

None == [none |-> TRUE]

(* issue_data as the caller may pass it: complete, without 'fields',      *)
(* without 'key'.                                                          *)
IssueInputs ==
    { [key |-> IssueKey, fields |-> [summary |-> "add a field"]],
      [key |-> IssueKey],
      [fields |-> [summary |-> "add a field"]] }

SubIdle ==
    /\ sub_pc = "idle"
    /\ sub_in = None
    /\ sub_ctx = <<>>
    /\ sub_out = None

(* process() has not been entered. *)
RunIdle ==
    /\ pc = "entry"
    /\ issue_key = "unset"
    /\ ai_response = None
    /\ i = 0
    /\ execution_results = <<>>
    /\ context = <<>>
    /\ inflight = None
    /\ calls = <<>>
    /\ returned = <<>>
    /\ ret = None

(* The runs that may share one agent instance: the background worker's    *)
(* and a test endpoint's.                                                  *)
RunIds == {"worker", "test"}

(* Variant: the context is kept on the agent instance. *)
ContextSlot_OnInstance(run) == "self"

(* Line 188, `context = {}`: the dict is a local of the call of process(), *)
(* so each run's context lives in that run's own frame.                    *)
ContextSlot(run) == run

ConcIdle ==
    /\ conc_pc = [r \in RunIds |-> "idle"]
    /\ conc_plan = [r \in RunIds |-> <<>>]
    /\ conc_i = [r \in RunIds |-> 0]
    /\ conc_store = [f \in RunIds \cup {"self"} |-> <<>>]
    /\ conc_sent = [r \in RunIds |-> <<>>]
    /\ conc_got = [r \in RunIds |-> <<>>]

(* Variant: the planner is registered like the other agents. *)
AgentConfigs_WithPlanner ==
    {"l1_triage", "admin_validator", "pm_enhancer", "governance_bot", "planner"}

(* main.py lines 50-55: the agents the module tries to initialise. *)
AgentConfigs == {"l1_triage", "admin_validator", "pm_enhancer", "governance_bot"}

(* main.py line 216: the one thread that runs worker_loop. *)
Workers == {"worker_loop"}

(* main.py after import, all agents initialised, no request received yet. *)
SrvIdle ==
    /\ available_agents = AgentConfigs
    /\ jobs = <<>>
    /\ worker_pc = [w \in Workers |-> "get"]
    /\ worker_job = [w \in Workers |-> None]
    /\ last_response = None
    /\ enqueued = <<>>
    /\ taken = <<>>
    /\ handled = <<>>
    /\ task_done = <<>>

(* Nothing of the stand-alone functions has been called. *)
FnIdle ==
    /\ dispatch = None
    /\ planning = None
    /\ config = None
    /\ gov = None

Init == RunIdle /\ SubIdle /\ ConcIdle /\ SrvIdle /\ FnIdle

(* Lines 151-159, outside the try block: issue_data["key"] raises a        *)
(* KeyError when the key is missing; a missing 'fields' reads as {}.       *)
Entry ==
    /\ pc = "entry"
    /\ \E issue_data \in IssueInputs :
         IF "key" \in DOMAIN issue_data
         THEN /\ issue_key' = issue_data.key
              /\ pc' = "pending"
              /\ UNCHANGED ret
         ELSE /\ pc' = "raised"
              /\ ret' = [raised |-> "KeyError"]
              /\ UNCHANGED issue_key
    /\ UNCHANGED <<ai_response, i, execution_results, context, inflight, calls, returned>>
    /\ UNCHANGED <<subvars, concvars, srvvars, fnvars>>

(* Lines 163-167: the planner's answer is not a usable plan. *)
PlanError ==
    /\ pc = "pending"
    /\ \E r \in AiResponses :
         /\ "notdict" \in DOMAIN r \/ "plan" \notin DOMAIN r
         /\ ai_response' = r
         /\ ret' = PlanErrorResult(r)
    /\ pc' = "done"
    /\ UNCHANGED <<i, execution_results, context, inflight, calls, returned>>
    /\ UNCHANGED <<issue_key, subvars, concvars, srvvars, fnvars>>

(* Lines 172-184: the safety gate vetoes the plan; R is what call_ollama   *)
(* may have returned.                                                      *)
GateBlock(R) ==
    /\ pc = "pending"
    /\ \E r \in R :
         /\ "notdict" \notin DOMAIN r /\ "plan" \in DOMAIN r
         /\ SafetyBlocked(r)
         /\ ai_response' = r
         /\ ret' = BlockedResult(r)
    /\ pc' = "done"
    /\ UNCHANGED <<i, execution_results, context, inflight, calls, returned>>
    /\ UNCHANGED <<issue_key, subvars, concvars, srvvars, fnvars>>

Block == GateBlock(AiResponses)

(* Lines 172-188: the gate lets the plan pass and the loop is set up. *)
GateStart(R) ==
    /\ pc = "pending"
    /\ \E r \in R :
         /\ "notdict" \notin DOMAIN r /\ "plan" \in DOMAIN r
         /\ ~SafetyBlocked(r)
         /\ ai_response' = r
    /\ execution_results' = <<>>
    /\ context' = <<>>
    /\ i' = 1
    /\ pc' = "loop"
    /\ UNCHANGED <<inflight, calls, returned, ret>>
    /\ UNCHANGED <<issue_key, subvars, concvars, srvvars, fnvars>>

Start == GateStart(AiResponses)

(* Lines 190-205: the next step is resolved against the context and its    *)
(* call is handed to execute_api_call.                                     *)
StepCall ==
    /\ pc = "loop"
    /\ i <= Len(ai_response.plan)
    /\ LET step == ai_response.plan[i]
           step_num == Get(step, "step", Len(execution_results) + 1)
           api_call == substitute_context_variables(Get(step, "api_call", None), context)
           call == [for |-> "step", pos |-> i, step |-> step_num,
                    description |-> Get(step, "description", "None"),
                    method |-> Get(api_call, "method", "GET"),
                    request_method |-> Upper(Get(api_call, "method", "GET")),
                    endpoint |-> Get(api_call, "endpoint", JStr(<<>>))]
       IN  /\ inflight' = call
           /\ calls' = Append(calls, call)
    /\ pc' = "calling"
    /\ UNCHANGED <<ai_response, i, execution_results, context, returned, ret>>
    /\ UNCHANGED <<issue_key, subvars, concvars, srvvars, fnvars>>

(* Lines 207-229 after execute_api_call returned: store the context,       *)
(* append the step result, stop on failure.  A TypeError raised while      *)
(* storing is caught by the handler of lines 246-248.                      *)
StepReturn ==
    /\ pc = "calling"
    /\ \E result \in ExecResults(inflight) :
         LET stored == IF result.success
                       THEN StoreContext(context, inflight.step, result.data)
                       ELSE [raised |-> FALSE, context |-> context]
         IN  /\ returned' = Append(returned, result)
             /\ context' = stored.context
             /\ IF stored.raised
                THEN /\ ret' = [error |-> "TypeError", issueKey |-> issue_key]
                     /\ pc' = "done"
                     /\ UNCHANGED <<i, execution_results>>
                ELSE /\ execution_results' =
                          Append(execution_results,
                                 [step |-> inflight.step,
                                  description |-> inflight.description,
                                  success |-> result.success,
                                  result |-> result])
                     /\ IF StopOnFailure(result)
                        THEN i' = i /\ pc' = "post"
                        ELSE i' = i + 1 /\ pc' = "loop"
                     /\ UNCHANGED ret
    /\ inflight' = None
    /\ UNCHANGED <<ai_response, calls>>
    /\ UNCHANGED <<issue_key, subvars, concvars, srvvars, fnvars>>

(* Line 190: the plan is exhausted. *)
LoopEnd ==
    /\ pc = "loop"
    /\ i > Len(ai_response.plan)
    /\ pc' = "post"
    /\ UNCHANGED <<ai_response, i, execution_results, context, inflight, calls, returned, ret>>
    /\ UNCHANGED <<issue_key, subvars, concvars, srvvars, fnvars>>

(* How the comment call of lines 314-329 ends: execute_api_call returns  *)
(* success or failure, or something inside the try block of lines 294-335  *)
(* raises and line 334 logs it.                                            *)
CommentOutcomes == {"success", "failed", "raised"}

(* Lines 295-296: the two numbers of the comment's first line. *)
CommentCounts(results) == [successful |-> SuccessCount(results), total |-> Len(results)]

(* Variant: an exception of the comment call reaches line 246. *)
ProcessResult_CommentRaises(outcome) ==
    IF outcome = "raised"
    THEN [error |-> "Exception", issueKey |-> issue_key]
    ELSE [received |-> TRUE,
          issueKey |-> issue_key,
          ai_understanding |-> Get(ai_response, "understanding", "None"),
          plan |-> ai_response.plan,
          execution_results |-> execution_results,
          steps_completed |-> SuccessCount(execution_results),
          total_steps |-> Len(ai_response.plan),
          expected_outcome |-> Get(ai_response, "expected_outcome", "None")]

(* Lines 234-244: the record process() returns after the comment call,     *)
(* whose outcome it does not look at.                                      *)
ProcessResult(outcome) ==
    [received |-> TRUE,
     issueKey |-> issue_key,
     ai_understanding |-> Get(ai_response, "understanding", "None"),
     plan |-> ai_response.plan,
     execution_results |-> execution_results,
     steps_completed |-> SuccessCount(execution_results),
     total_steps |-> Len(ai_response.plan),
     expected_outcome |-> Get(ai_response, "expected_outcome", "None")]

(* Lines 231-244 with the comment call ending in one of `outcomes`: the    *)
(* summary comment is posted through the same executor and the result is   *)
(* returned.                                                               *)
PostAndReturn(outcomes) ==
    /\ pc = "post"
    /\ \E outcome \in outcomes :
         /\ calls' = Append(calls,
                            [for |-> "comment", pos |-> 0, step |-> 0,
                             description |-> "comment", method |-> "POST",
                             request_method |-> Upper("POST"),
                             endpoint |-> JStr(<<Lit("/rest/api/3/issue/"), Lit(issue_key),
                                                 Lit("/comment")>>),
                             counts |-> CommentCounts(execution_results),
                             outcome |-> outcome])
         /\ ret' = ProcessResult(outcome)
    /\ pc' = "done"
    /\ UNCHANGED <<ai_response, i, execution_results, context, inflight, returned>>
    /\ UNCHANGED <<issue_key, subvars, concvars, srvvars, fnvars>>

(* Lines 232-244 do not look at how the comment call ended; the runs of    *)
(* Spec do not record it.                                                  *)
CommentUnrecorded == {"unrecorded"}

Finish == PostAndReturn(CommentUnrecorded)

Next == Entry \/ PlanError \/ Block \/ Start \/ StepCall \/ StepReturn \/ LoopEnd \/ Finish

Spec == Init /\ [][Next]_vars

(* The interpreter runs every step of process() that is enabled.  The      *)
(* answer to a request is not among them: lines 53-58 call                 *)
(* session.request without a timeout argument, so nothing forces           *)
(* StepReturn to happen.                                                   *)
LiveSpec ==
    /\ Spec
    /\ WF_vars(Entry)
    /\ WF_vars(PlanError \/ Block \/ Start)
    /\ WF_vars(StepCall)
    /\ WF_vars(LoopEnd)
    /\ WF_vars(Finish)

----------------------------------------------------------------------------
(* The same run when the planner writes the method in any letter case.     *)

(* Longest plan of these runs. *)
MaxCaseSteps == 2

CaseStepChoices ==
    { [step |-> 1, description |-> "create", api_call |-> [method |-> "POST", endpoint |-> Plain]],
      [step |-> 1, description |-> "remove", api_call |-> [method |-> "DELETE", endpoint |-> Plain]],
      [step |-> 1, description |-> "remove", api_call |-> [method |-> "delete", endpoint |-> Plain]],
      [step |-> 2, description |-> "remove", api_call |-> [method |-> "Delete", endpoint |-> Plain]] }

CaseAiResponses ==
    {[understanding |-> "u", plan |-> p, expected_outcome |-> "e"] :
        p \in UNION {[1..n -> CaseStepChoices] : n \in 0..MaxCaseSteps}}
    \cup {[understanding |-> "u", plan |-> p, safety_checks |-> sc, expected_outcome |-> "e"] :
            p \in UNION {[1..n -> CaseStepChoices] : n \in 0..MaxCaseSteps},
            sc \in SafetyChoices}

CaseBlock == GateBlock(CaseAiResponses)

CaseStart == GateStart(CaseAiResponses)

CaseNext == Entry \/ CaseBlock \/ CaseStart \/ StepCall \/ StepReturn \/ LoopEnd \/ Finish

CaseSpec == Init /\ [][CaseNext]_vars

----------------------------------------------------------------------------
(* The same run with the end of the comment call recorded. *)

PostFinish == PostAndReturn(CommentOutcomes)

PostNext ==
    Entry \/ PlanError \/ CaseBlock \/ CaseStart \/ StepCall \/ StepReturn \/ LoopEnd
        \/ PostFinish

PostSpec == Init /\ [][PostNext]_vars

----------------------------------------------------------------------------
(* Two calls of process() on the same UnrestrictedJiraAgent, interleaved   *)
(* at the calls of execute_api_call.  process() writes no attribute of     *)
(* self; what the runs could share is where the context dict lives.        *)

(* Longest plan of each of the two runs. *)
MaxConcSteps == 2

ConcStepChoices ==
    { [step |-> 1, description |-> "create", api_call |-> [method |-> "POST", endpoint |-> Plain]],
      [step |-> 2, description |-> "contexts", api_call |-> [method |-> "GET", endpoint |-> Embedded]],
      [step |-> 2, description |-> "read", api_call |-> [method |-> "GET", endpoint |-> Exact]] }

ConcPlans == UNION {[1..n -> ConcStepChoices] : n \in 1..MaxConcSteps}

(* What the external system answers to a call of the given run: the ids    *)
(* it hands out to the two runs differ.                                    *)
ConcBody(run, n) ==
    Body("object", {"id"}, JInt((IF run = "worker" THEN 1000 ELSE 2000) + n), JNull, "b")

ConcInit ==
    /\ FnIdle
    /\ RunIdle
    /\ SubIdle
    /\ ConcIdle
    /\ SrvIdle

(* Lines 186-188 of one run: the plan passed the gate, context = {}. *)
ConcStart(run) ==
    /\ conc_pc[run] = "idle"
    /\ \E p \in ConcPlans : conc_plan' = [conc_plan EXCEPT ![run] = p]
    /\ conc_store' = [conc_store EXCEPT ![ContextSlot(run)] = <<>>]
    /\ conc_i' = [conc_i EXCEPT ![run] = 1]
    /\ conc_pc' = [conc_pc EXCEPT ![run] = "loop"]
    /\ UNCHANGED <<conc_sent, conc_got>>
    /\ UNCHANGED <<runvars, subvars, srvvars, fnvars>>

(* Lines 190-205 of one run: resolve the step against the context and      *)
(* hand the call to execute_api_call.                                      *)
ConcCall(run) ==
    /\ conc_pc[run] = "loop"
    /\ conc_i[run] <= Len(conc_plan[run])
    /\ conc_sent' = [conc_sent EXCEPT ![run] =
            Append(@, substitute_context_variables(conc_plan[run][conc_i[run]].api_call,
                                                   conc_store[ContextSlot(run)]))]
    /\ conc_pc' = [conc_pc EXCEPT ![run] = "calling"]
    /\ UNCHANGED <<conc_plan, conc_i, conc_store, conc_got>>
    /\ UNCHANGED <<runvars, subvars, srvvars, fnvars>>

(* Lines 207-229 of one run: a successful result is stored in the context  *)
(* and the loop goes on; a failed one ends the loop.                       *)
ConcReturn(run) ==
    /\ conc_pc[run] = "calling"
    /\ \/ LET step_num == conc_plan[run][conc_i[run]].step
               data == ConcBody(run, conc_i[run])
           IN  /\ conc_store' = [conc_store EXCEPT ![ContextSlot(run)] =
                                    StoreContext(@, step_num, data).context]
               /\ conc_got' = [conc_got EXCEPT ![run] =
                                    Append(@, [step |-> step_num, data |-> data])]
               /\ conc_i' = [conc_i EXCEPT ![run] = @ + 1]
               /\ conc_pc' = [conc_pc EXCEPT ![run] = "loop"]
       \/ /\ conc_pc' = [conc_pc EXCEPT ![run] = "done"]
          /\ UNCHANGED <<conc_store, conc_got, conc_i>>
    /\ UNCHANGED <<conc_plan, conc_sent>>
    /\ UNCHANGED <<runvars, subvars, srvvars, fnvars>>

(* Line 190 of one run: the plan is exhausted. *)
ConcEnd(run) ==
    /\ conc_pc[run] = "loop"
    /\ conc_i[run] > Len(conc_plan[run])
    /\ conc_pc' = [conc_pc EXCEPT ![run] = "done"]
    /\ UNCHANGED <<conc_plan, conc_i, conc_store, conc_sent, conc_got>>
    /\ UNCHANGED <<runvars, subvars, srvvars, fnvars>>

ConcNext ==
    \E run \in RunIds : ConcStart(run) \/ ConcCall(run) \/ ConcReturn(run) \/ ConcEnd(run)

ConcSpec == ConcInit /\ [][ConcNext]_vars

----------------------------------------------------------------------------
(* src/main.py: the webhook endpoints, the job queue and the worker.       *)

(* Number of webhook requests received. *)
MaxRequests == 2

(* config.webhook_secret (config.py line 64), and the x-webhook-secret     *)
(* headers a request may carry: each a text and whether it is ASCII only.  *)
ExpectedSecret == [text |-> "changeme", ascii |-> TRUE]

ProvidedSecrets ==
    { ExpectedSecret,
      [text |-> "", ascii |-> TRUE],
      [text |-> "changem<e9>", ascii |-> FALSE] }

(* hmac.compare_digest on two str: a TypeError unless both are ASCII. *)
compare_digest(a, b) ==
    IF ~a.ascii \/ ~b.ascii THEN "TypeError"
    ELSE IF a.text = b.text THEN "equal" ELSE "different"

(* Lines 81-88: returns, raises HTTPException(401), or lets the TypeError  *)
(* of compare_digest through.                                              *)
verify_webhook_secret(provided) ==
    CASE compare_digest(provided, ExpectedSecret) = "equal" -> "ok"
      [] compare_digest(provided, ExpectedSecret) = "different" -> "HTTPException401"
      [] OTHER -> "TypeError"

(* The five POST endpoints and the agent_name each puts in its job. *)
Endpoints ==
    { [path |-> "/agents/l1-triage", agent_name |-> "l1_triage"],
      [path |-> "/agents/custom-field-creator", agent_name |-> "admin_validator"],
      [path |-> "/agents/pm-enhancer", agent_name |-> "pm_enhancer"],
      [path |-> "/agents/governance-bot", agent_name |-> "governance_bot"],
      [path |-> "/agents/planner", agent_name |-> "planner"] }

(* Request bodies: the direct payload format, Jira's webhook format, and a *)
(* JSON object without issueKey.                                           *)
JiraIssue ==
    [key |-> "ADMIN-1",
     fields |-> [summary |-> "add a field", issuetype |-> [name |-> "Task"]]]

Bodies ==
    { [issueKey |-> "ADMIN-1", summary |-> "add a field"],
      [issue |-> JiraIssue],
      [summary |-> "no key"] }

(* Lines 220-252. *)
extract_webhook_data(body) ==
    IF "issue" \in DOMAIN body
    THEN [issueKey |-> body.issue.key,
          summary |-> body.issue.fields.summary,
          issueType |-> body.issue.fields.issuetype.name,
          issue |-> body.issue,
          raw_data |-> body]
    ELSE body

(* The fields of the WebhookPayload model, lines 69-79. *)
PayloadFields ==
    {"issueKey", "summary", "description", "issueType", "requestType", "ruleId", "timestamp",
     "issue", "raw_data"}

(* The model built from webhook_data: issueKey is required, fields the     *)
(* model does not declare are dropped, and a field that is not given is    *)
(* None (here: absent from the record).                                    *)
WebhookPayload(data) ==
    IF "issueKey" \notin DOMAIN data THEN [raised |-> "ValidationError"]
    ELSE [f \in DOMAIN data \cap PayloadFields |-> data[f]]

(* Lines 90-134. *)
build_full_issue_context(payload) ==
    IF "issue" \in DOMAIN payload THEN [issue |-> payload.issue]
    ELSE IF "raw_data" \in DOMAIN payload /\ "issue" \in DOMAIN payload.raw_data
         THEN [issue |-> payload.raw_data.issue]
         ELSE [issue |->
                 [key |-> payload.issueKey,
                  fields |-> [summary |-> Get(payload, "summary", ""),
                              issuetype |-> [name |-> Get(payload, "issueType", "Task")]]]]

(* What an agent's own work (the AI and Jira calls it makes once it has    *)
(* its input) ends in: a result, or an error that it reports itself.       *)
AgentOutcomes == {"ok", "error"}

EmptyDict == [empty_dict |-> TRUE]

(* One invocation of an agent by process_with_agent, lines 151-162: the    *)
(* method called, what the agent read as issue key and fields, whether it  *)
(* got as far as its AI collaborator, the exception it raised and the      *)
(* value it returned.                                                      *)
(*   L1TriageBot.process_ticket(issue_key, context), l1_triage_bot.py      *)
(*     63-106, reads context["issue"]["fields"] and catches everything;    *)
(*   UnrestrictedJiraAgent.process and GovernanceBot.process read          *)
(*     issue_data["key"] before their try block;                           *)
(*   PMEnhancer.process reads issue_data.get("key", "UNKNOWN") and         *)
(*     issue_data.get("fields") or {}.                                     *)
AgentCall(agent_name, issueKey, ctx, outcome) ==
    LET answer(key) == IF outcome = "ok" THEN [issueKey |-> key, result |-> "done"]
                       ELSE [issueKey |-> key, error |-> "failed"]
    IN  CASE agent_name = "l1_triage" ->
               [method |-> "process_ticket", raised |-> "none", seen_key |-> issueKey,
                seen_fields |-> Get(Get(ctx, "issue", EmptyDict), "fields", EmptyDict),
                planned |-> TRUE, result |-> answer(issueKey)]
          [] agent_name = "pm_enhancer" ->
               [method |-> "process", raised |-> "none",
                seen_key |-> Get(ctx, "key", "UNKNOWN"),
                seen_fields |-> Get(ctx, "fields", EmptyDict),
                planned |-> TRUE, result |-> answer(Get(ctx, "key", "UNKNOWN"))]
          [] OTHER ->
               IF "key" \in DOMAIN ctx
               THEN [method |-> "process", raised |-> "none", seen_key |-> ctx.key,
                     seen_fields |-> Get(ctx, "fields", EmptyDict),
                     planned |-> TRUE, result |-> answer(ctx.key)]
               ELSE [method |-> "process", raised |-> "KeyError", seen_key |-> "",
                     seen_fields |-> EmptyDict, planned |-> FALSE, result |-> None]

(* Lines 136-177.  `escaped` is the exception that leaves the function:    *)
(* the membership test is the only statement outside the try block and     *)
(* `except Exception` turns everything an agent raises into a result.      *)
process_with_agent(agent_name, payload, outcome) ==
    IF agent_name \notin available_agents
    THEN [escaped |-> "none", invoked |-> <<>>,
          result |-> [error |-> "not available", available_agents |-> available_agents,
                      issueKey |-> payload.issueKey]]
    ELSE LET call == AgentCall(agent_name, payload.issueKey,
                               build_full_issue_context(payload), outcome)
         IN  [escaped |-> "none", invoked |-> <<call>>,
              result |-> IF call.raised # "none"
                         THEN [error |-> call.raised, issueKey |-> payload.issueKey,
                               agent |-> agent_name]
                         ELSE call.result]

(* Variant: get returns the newest job. *)
QueueGet_Lifo(q) == [item |-> q[Len(q)], rest |-> SubSeq(q, 1, Len(q) - 1)]

(* Variant: get returns the oldest job and leaves it on the queue. *)
QueueGet_Peek(q) == [item |-> Head(q), rest |-> q]

(* queue.Queue.get on a non-empty queue: the oldest item is removed. *)
QueueGet(q) == [item |-> Head(q), rest |-> Tail(q)]

RequestCount == IF last_response = None THEN 0 ELSE last_response.n

(* Lines 57-64: an agent whose constructor raises is left out. *)
ServerInit ==
    /\ FnIdle
    /\ RunIdle
    /\ SubIdle
    /\ ConcIdle
    /\ available_agents \in {AgentConfigs, AgentConfigs \ {"governance_bot"}}
    /\ jobs = <<>>
    /\ worker_pc = [w \in Workers |-> "get"]
    /\ worker_job = [w \in Workers |-> None]
    /\ last_response = None
    /\ enqueued = <<>>
    /\ taken = <<>>
    /\ handled = <<>>
    /\ task_done = <<>>

(* One request to one of the five webhook endpoints, lines 255-427: the    *)
(* secret is verified before the try block; inside it the body is read,    *)
(* turned into a payload and queued, and any exception becomes a 400.  An  *)
(* exception other than HTTPException that leaves the handler is answered  *)
(* with 500 by the framework.                                              *)
Webhook ==
    /\ RequestCount < MaxRequests
    /\ \E ep \in Endpoints, secret \in ProvidedSecrets, body \in Bodies :
         LET verdict == verify_webhook_secret(secret)
             payload == WebhookPayload(extract_webhook_data(body))
             job == [id |-> Len(enqueued) + 1, agent_name |-> ep.agent_name,
                     payload |-> payload]
             answer(status, read, queued) ==
                 [n |-> RequestCount + 1, path |-> ep.path, secret |-> secret,
                  status |-> status, body_read |-> read, queued |-> queued]
         IN  IF verdict # "ok"
             THEN /\ last_response' =
                        answer(IF verdict = "HTTPException401" THEN 401 ELSE 500, FALSE, FALSE)
                  /\ UNCHANGED <<jobs, enqueued>>
             ELSE IF "raised" \in DOMAIN payload
             THEN /\ last_response' = answer(400, TRUE, FALSE)
                  /\ UNCHANGED <<jobs, enqueued>>
             ELSE /\ jobs' = Append(jobs, job)
                  /\ enqueued' = Append(enqueued, [id |-> job.id, path |-> ep.path, job |-> job])
                  /\ last_response' = answer(200, TRUE, TRUE)
    /\ UNCHANGED <<available_agents, worker_pc, worker_job, taken, handled, task_done>>
    /\ UNCHANGED <<runvars, subvars, concvars, fnvars>>

(* Line 187: jobs.get returns the next job.  On an empty queue it raises   *)
(* queue.Empty after a second and the loop goes round (no change).         *)
WorkerGet(w) ==
    /\ worker_pc[w] = "get"
    /\ jobs # <<>>
    /\ jobs' = QueueGet(jobs).rest
    /\ worker_job' = [worker_job EXCEPT ![w] = QueueGet(jobs).item]
    /\ taken' = Append(taken, QueueGet(jobs).item.id)
    /\ worker_pc' = [worker_pc EXCEPT ![w] = "job"]
    /\ UNCHANGED <<available_agents, last_response, enqueued, handled, task_done>>
    /\ UNCHANGED <<runvars, subvars, concvars, fnvars>>

(* Lines 189-211: the job is handled and marked done, at line 200 when     *)
(* nothing was raised and at line 208 otherwise; then the loop goes round. *)
WorkerJob(w) ==
    /\ worker_pc[w] = "job"
    /\ \E outcome \in AgentOutcomes :
         LET job == worker_job[w]
             done == process_with_agent(job.agent_name, WebhookPayload(job.payload), outcome)
         IN  handled' = Append(handled, [id |-> job.id, agent_name |-> job.agent_name,
                                         payload |-> job.payload, escaped |-> done.escaped,
                                         invoked |-> done.invoked, result |-> done.result])
    /\ task_done' = Append(task_done, worker_job[w].id)
    /\ worker_job' = [worker_job EXCEPT ![w] = None]
    /\ worker_pc' = [worker_pc EXCEPT ![w] = "get"]
    /\ UNCHANGED <<available_agents, jobs, last_response, enqueued, taken>>
    /\ UNCHANGED <<runvars, subvars, concvars, fnvars>>

ServerNext == Webhook \/ \E w \in Workers : WorkerGet(w) \/ WorkerJob(w)

ServerSpec == ServerInit /\ [][ServerNext]_vars

(* The worker thread started at line 216 is a thread of its own and keeps  *)
(* running; an agent's work ends (AgentOutcomes).                          *)
ServerLive ==
    /\ ServerSpec
    /\ WF_vars(\E w \in Workers : WorkerGet(w))
    /\ WF_vars(\E w \in Workers : WorkerJob(w))

(* Most jobs handled in the model of the dispatch of lines 146-171. *)
MaxJobs == 2

(* An agent object as lines 150-162 see it: which of the two entry points  *)
(* it has.  L1TriageBot has process_ticket only; UnrestrictedJiraAgent,    *)
(* PMEnhancer and GovernanceBot have process only; the "older agents" of   *)
(* line 161 and an object with neither are the other two shapes.           *)
AgentObjects == { [process_ticket |-> pt, process |-> p] : pt \in BOOLEAN, p \in BOOLEAN }

(* How one invocation of an entry point ends: it returns a result, raises  *)
(* an AttributeError, or raises another exception.                         *)
CallOutcomes == {"ok", "AttributeError", "Exception"}

hasattr(agent, name) == agent[name]

(* Lines 168-171: what `except Exception` returns. *)
DispatchError(e) == [error |-> e, issueKey |-> IssueKey]

(* Line 167, `return result`, and the worker going on to the next job. *)
DispatchReturn(agent, invoked, result) ==
    [pc |-> "get", agent |-> None, invoked |-> <<>>,
     log |-> Append(dispatch.log, [agent |-> agent, invoked |-> invoked, result |-> result])]

DispatchInit ==
    /\ RunIdle
    /\ SubIdle
    /\ ConcIdle
    /\ SrvIdle
    /\ planning = None
    /\ config = None
    /\ gov = None
    /\ dispatch = [pc |-> "get", agent |-> None, invoked |-> <<>>, log |-> <<>>]

(* Lines 150-159 and 168-171: the entry point is chosen with hasattr and   *)
(* invoked.  An AttributeError it raises goes to the handler of line 160,  *)
(* any other exception to the handler of line 168.                         *)
DispatchCall ==
    /\ dispatch.pc = "get"
    /\ Len(dispatch.log) < MaxJobs
    /\ \E agent \in AgentObjects, outcome \in CallOutcomes :
         LET method == IF hasattr(agent, "process_ticket") THEN "process_ticket"
                       ELSE IF hasattr(agent, "process") THEN "process"
                       ELSE "none"
         IN  dispatch' =
               IF method = "none"
               THEN DispatchReturn(agent, <<>>,
                        [error |-> "has no process method", issueKey |-> IssueKey])
               ELSE IF outcome = "ok"
               THEN DispatchReturn(agent, <<method>>,
                        [result |-> "done", issueKey |-> IssueKey])
               ELSE IF outcome = "AttributeError"
               THEN [dispatch EXCEPT !.pc = "fallback", !.agent = agent,
                                     !.invoked = <<method>>]
               ELSE DispatchReturn(agent, <<method>>, DispatchError(outcome))
    /\ UNCHANGED <<runvars, subvars, concvars, srvvars, planning, config, gov>>

(* Lines 160-162 and 168-171: `result = agent.process(context)` in the     *)
(* AttributeError handler.  On an object without process the attribute     *)
(* lookup itself raises AttributeError and nothing is invoked; whatever    *)
(* is raised here goes to the handler of line 168.                         *)
DispatchFallback ==
    /\ dispatch.pc = "fallback"
    /\ \E outcome \in CallOutcomes :
         LET agent == dispatch.agent
         IN  dispatch' =
               IF ~hasattr(agent, "process")
               THEN DispatchReturn(agent, dispatch.invoked, DispatchError("AttributeError"))
               ELSE IF outcome = "ok"
               THEN DispatchReturn(agent, Append(dispatch.invoked, "process"),
                        [result |-> "done", issueKey |-> IssueKey])
               ELSE DispatchReturn(agent, Append(dispatch.invoked, "process"),
                        DispatchError(outcome))
    /\ UNCHANGED <<runvars, subvars, concvars, srvvars, planning, config, gov>>

DispatchNext == DispatchCall \/ DispatchFallback

DispatchSpec == DispatchInit /\ [][DispatchNext]_vars

----------------------------------------------------------------------------
(* agents/planner.py *)

(* Most labels on the issue plan() is given. *)
MaxLabels == 2

(* A text is a sequence of words, a label a sequence of chunks             *)
(* ("Mode:", "PM"); str.lower() works word by word.                        *)
LowerWord(w) ==
    CASE w = "Custom" -> "custom"
      [] w = "Field" -> "field"
      [] w = "Workflow" -> "workflow"
      [] w = "Transition" -> "transition"
      [] w = "JSM" -> "jsm"
      [] w = "Mode:" -> "mode:"
      [] w = "PM" -> "pm"
      [] w = "Admin" -> "admin"
      [] OTHER -> w

Lower(text) == [k \in DOMAIN text |-> LowerWord(text[k])]

(* `needle in text` for two strings: the needle's words are found in a     *)
(* row; a one-word needle is also found inside a longer word.              *)
InText(needle, text) ==
    \E s \in 0..(Len(text) - Len(needle)) :
        \A k \in 1..Len(needle) :
            \/ text[s + k] = needle[k]
            \/ Len(needle) = 1 /\ <<needle[k], text[s + k]>> \in {<<"form", "platform">>}

SummaryChoices ==
    { <<>>, <<"Add", "Custom", "Field">>, <<"fix", "Workflow">>, <<"new", "form">>,
      <<"update", "platform">>, <<"laptop", "broken">> }

(* fields.description: absent or None, a string, or the Atlassian document *)
(* dict that main.py lines 116-130 build and Jira's REST API v3 returns.   *)
DescriptionChoices ==
    { [kind |-> "none", words |-> <<>>],
      [kind |-> "str", words |-> <<"please", "create", "field">>],
      [kind |-> "str", words |-> <<"add", "a", "Transition">>],
      [kind |-> "str", words |-> <<"JSM", "portal">>],
      [kind |-> "str", words |-> <<"screen", "is", "cracked">>],
      [kind |-> "dict", words |-> <<"screen", "is", "cracked">>] }

LabelChoices ==
    { <<"mode:", "pm">>, <<"Mode:", "Admin">>, <<"mode:", "gov">>, <<"mode:", "qa">>, <<"bug">> }

PlannerIssues ==
    { [summary |-> s, description |-> d, labels |-> l] :
        s \in SummaryChoices, d \in DescriptionChoices,
        l \in UNION {[1..n -> LabelChoices] : n \in 0..MaxLabels} }

(* Lines 5-12 and 15. *)
Intent ==
    { "create_custom_field", "provision_field_to_screen", "update_workflow",
      "create_jsm_form", "governance_preflight_only", "other" }

StepAgents == {"admin_validator", "governance_bot", "pm_enhancer"}

(* Plan(...): confidence is kept in hundredths. *)
Plan(intent, confidence, steps, notes) ==
    [intent |-> intent, confidence |-> confidence, steps |-> steps, notes |-> notes]

PlanStep(agent, action) == [agent |-> agent, action |-> action]

(* Variant: the validator returns the number as it came. *)
conf_range_Unclamped(v) == v

(* Lines 27-29: max(0.0, min(1.0, float(v))), in hundredths. *)
conf_range(v) ==
    LET capped == IF v < 100 THEN v ELSE 100
    IN  IF capped > 0 THEN capped ELSE 0

(* Lines 31-51.  A dict has no lower(): line 33 raises AttributeError      *)
(* before any rule is looked at.                                           *)
classify_with_rules(issue) ==
    LET summary == Lower(issue.summary)
        desc == Lower(issue.description.words)
        labels == [k \in DOMAIN issue.labels |-> Lower(issue.labels[k])]
        mode(lb) == IF Len(lb) = 2 THEN lb[2] ELSE ""
        hits == { k \in DOMAIN labels :
                    /\ labels[k][1] = "mode:"
                    /\ mode(labels[k]) \in {"pm", "admin", "gov"} }
        first == CHOOSE k \in hits : \A j \in hits : k <= j
        found(intent, confidence) ==
            [raised |-> "none", matched |-> TRUE, plan |-> Plan(intent, confidence, <<>>, "None")]
    IN  IF issue.description.kind = "dict"
        THEN [raised |-> "AttributeError", matched |-> FALSE, plan |-> None]
        ELSE IF hits # {}
        THEN CASE mode(labels[first]) = "pm" -> found("create_jsm_form", 99)
               [] mode(labels[first]) = "admin" -> found("create_custom_field", 99)
               [] OTHER -> found("governance_preflight_only", 99)
        ELSE IF InText(<<"custom", "field">>, summary) \/ InText(<<"create", "field">>, desc)
        THEN found("create_custom_field", 80)
        ELSE IF InText(<<"workflow">>, summary) \/ InText(<<"transition">>, desc)
        THEN found("update_workflow", 75)
        ELSE IF \/ InText(<<"form">>, summary)
                \/ InText(<<"request", "form">>, desc)
                \/ InText(<<"jsm">>, desc)
        THEN found("create_jsm_form", 80)
        ELSE [raised |-> "none", matched |-> FALSE, plan |-> None]

(* Lines 83-90: the default steps of a rule-matched plan. *)
DefaultSteps(p) ==
    CASE p.intent = "create_custom_field" ->
           <<PlanStep("admin_validator", "create_custom_field")>>
      [] p.intent = "update_workflow" ->
           <<PlanStep("governance_bot", "workflow_preflight"),
             PlanStep("governance_bot", "update_workflow")>>
      [] p.intent = "create_jsm_form" ->
           <<PlanStep("pm_enhancer", "create_jsm_form")>>
      [] OTHER -> p.steps

(* What llm.generate may return: a string made of prose, whitespace, JSON  *)
(* objects and brace-delimited text that is not JSON, or not a string.     *)
LlmObjects ==
    { [intent |-> it, confidence |-> c, steps |-> st] :
        it \in {"other", "update_workflow", "bogus"},
        c \in {JInt(0 - 50), JInt(50), JInt(150), JStr(<<Lit("high")>>)},
        st \in { <<>>, <<PlanStep("governance_bot", "preflight")>>,
                 <<PlanStep("root", "preflight")>> } }
    \cup { [confidence |-> JInt(50)], [intent |-> "other"] }

Prose == [seg |-> "prose", value |-> None]
Space == [seg |-> "space", value |-> None]
Broken == [seg |-> "broken", value |-> None]
Object(o) == [seg |-> "object", value |-> o]

LlmTexts ==
    { [str |-> FALSE, segs |-> <<>>], [str |-> TRUE, segs |-> <<>>],
      [str |-> TRUE, segs |-> <<Prose>>], [str |-> TRUE, segs |-> <<Prose, Broken>>] }
    \cup { [str |-> TRUE, segs |-> t] :
             t \in UNION { { <<Object(o)>>, <<Prose, Object(o), Space>>, <<Object(o), Prose>>,
                             <<Broken, Object(o)>> } : o \in LlmObjects } }

(* Line 72, re.search(r"\{.*\}\s*$", text, flags=re.S): from the first     *)
(* opening brace to a closing brace that only whitespace follows.          *)
re_search(segs) ==
    LET braced == { k \in DOMAIN segs : segs[k].seg \in {"object", "broken"} }
        solid == { k \in DOMAIN segs : segs[k].seg # "space" }
        last == CHOOSE k \in solid : \A j \in solid : j <= k
        start == CHOOSE k \in braced : \A j \in braced : k <= j
    IN  IF solid = {} \/ braced = {} THEN <<>>
        ELSE IF last \notin braced THEN <<>>
        ELSE SubSeq(segs, start, last)

(* Line 73, Plan.parse_obj on a dict: intent must be one of Intent,        *)
(* confidence a number, every step's agent one of StepAgents.              *)
SatisfiesPlan(obj) ==
    /\ "intent" \in DOMAIN obj
    /\ obj.intent \in Intent
    /\ "confidence" \in DOMAIN obj
    /\ obj.confidence.t = "int"
    /\ \A k \in DOMAIN Get(obj, "steps", <<>>) : obj.steps[k].agent \in StepAgents

(* Line 75: the except branch. *)
FallbackPlan == Plan("other", 0, <<>>, "Planner parse error")

(* Lines 69-76, after llm.generate returned `text`: a TypeError of         *)
(* re.search on a non-string, an error of json.loads on anything but one   *)
(* object and a ValidationError all end in the except branch.              *)
build_llm_plan(text) ==
    IF ~text.str THEN FallbackPlan
    ELSE LET match == re_search(text.segs)
             loads == Len(match) = 1 /\ match[1].seg = "object"
             obj == IF match = <<>> THEN EmptyDict ELSE match[1].value
         IN  IF match # <<>> /\ ~loads THEN FallbackPlan
             ELSE IF ~SatisfiesPlan(obj) THEN FallbackPlan
             ELSE Plan(obj.intent, conf_range(obj.confidence.n), Get(obj, "steps", <<>>), "None")

PlannerInit ==
    /\ RunIdle
    /\ SubIdle
    /\ ConcIdle
    /\ SrvIdle
    /\ dispatch = None
    /\ config = None
    /\ gov = None
    /\ planning = [pc |-> "idle", issue |-> None, llm_calls |-> 0, text |-> None, out |-> None]

(* Lines 80-91 up to the call of llm.generate at line 68. *)
PlanCall ==
    /\ planning.pc = "idle"
    /\ \E issue \in PlannerIssues :
         LET p == classify_with_rules(issue)
         IN  planning' =
               IF p.raised # "none"
               THEN [planning EXCEPT !.pc = "done", !.issue = issue,
                                     !.out = [raised |-> p.raised]]
               ELSE IF p.matched
               THEN [planning EXCEPT !.pc = "done", !.issue = issue,
                                     !.out = [p.plan EXCEPT !.steps = DefaultSteps(p.plan)]]
               ELSE [planning EXCEPT !.pc = "llm", !.issue = issue, !.llm_calls = 1]
    /\ UNCHANGED <<runvars, subvars, concvars, srvvars, dispatch, config, gov>>

(* Lines 68-77: the model answers. *)
LlmAnswer ==
    /\ planning.pc = "llm"
    /\ \E text \in LlmTexts :
         planning' = [planning EXCEPT !.pc = "done", !.text = text,
                                      !.out = build_llm_plan(text)]
    /\ UNCHANGED <<runvars, subvars, concvars, srvvars, dispatch, config, gov>>

(* Line 68 is outside the try block: an exception of llm.generate leaves   *)
(* plan().                                                                 *)
LlmRaises ==
    /\ planning.pc = "llm"
    /\ planning' = [planning EXCEPT !.pc = "done", !.out = [raised |-> "Exception"]]
    /\ UNCHANGED <<runvars, subvars, concvars, srvvars, dispatch, config, gov>>

PlannerNext == PlanCall \/ LlmAnswer \/ LlmRaises

PlannerSpec == PlannerInit /\ [][PlannerNext]_vars

----------------------------------------------------------------------------
(* config.py, run.py and GenericJiraAPI.__init__ *)

(* os.getenv of a variable that is not set returns None, written "None";   *)
(* None and the empty string are the two falsy values.                     *)
Truthy(v) == v \notin {"None", ""}

EnvNames == {"JIRA_EMAIL", "JIRA_API_TOKEN", "JIRA_BEARER_TOKEN", "JIRA_TOKEN"}

(* What the process environment may hold for each variable: nothing, an    *)
(* empty value, or a value of its own.                                     *)
EnvValues(name) ==
    CASE name = "JIRA_EMAIL" -> {"None", "", "me@example.com"}
      [] name = "JIRA_API_TOKEN" -> {"None", "", "api-token"}
      [] name = "JIRA_BEARER_TOKEN" -> {"None", "", "bearer-pat"}
      [] OTHER -> {"None", "", "legacy-token"}

Environments ==
    { e \in [EnvNames -> UNION {EnvValues(n) : n \in EnvNames}] :
        \A n \in EnvNames : e[n] \in EnvValues(n) }

(* Variant: the legacy token is also taken as the bearer token when an     *)
(* email is set.                                                           *)
get_config_LegacyAnywhere(env) ==
    LET legacy_token == env["JIRA_TOKEN"]
    IN  [jira_email |-> env["JIRA_EMAIL"],
         jira_api_token |->
            IF ~Truthy(env["JIRA_API_TOKEN"]) /\ Truthy(legacy_token) /\ Truthy(env["JIRA_EMAIL"])
            THEN legacy_token ELSE env["JIRA_API_TOKEN"],
         jira_bearer_token |->
            IF ~Truthy(env["JIRA_BEARER_TOKEN"]) /\ Truthy(legacy_token)
            THEN legacy_token ELSE env["JIRA_BEARER_TOKEN"]]

(* Lines 46-62 and 84-88: the credentials get_config puts in the Config. *)
get_config(env) ==
    LET legacy_token == env["JIRA_TOKEN"]
    IN  [jira_email |-> env["JIRA_EMAIL"],
         jira_api_token |->
            IF ~Truthy(env["JIRA_API_TOKEN"]) /\ Truthy(legacy_token) /\ Truthy(env["JIRA_EMAIL"])
            THEN legacy_token ELSE env["JIRA_API_TOKEN"],
         jira_bearer_token |->
            IF ~Truthy(env["JIRA_BEARER_TOKEN"]) /\ Truthy(legacy_token)
                 /\ ~Truthy(env["JIRA_EMAIL"])
            THEN legacy_token ELSE env["JIRA_BEARER_TOKEN"]]

(* config.py lines 34-39, Config.__str__. *)
ConfigStr(cfg) ==
    LET has_cloud == Truthy(cfg.jira_email) /\ Truthy(cfg.jira_api_token)
        has_bearer == Truthy(cfg.jira_bearer_token)
    IN  IF has_cloud THEN "cloud-basic" ELSE IF has_bearer THEN "bearer" ELSE "none"

(* run.py lines 12-20. *)
jira_auth_mode(cfg) ==
    IF Truthy(cfg.jira_email) /\ Truthy(cfg.jira_api_token) THEN "cloud-basic"
    ELSE IF Truthy(cfg.jira_bearer_token) THEN "bearer"
    ELSE "none"

(* admin_validator.py lines 20-37: the scheme of the Authorization header  *)
(* the session gets, and the secret it carries.                            *)
GenericJiraAPI_init(cfg) ==
    IF Truthy(cfg.jira_email) /\ Truthy(cfg.jira_api_token)
    THEN [scheme |-> "Basic", secret |-> cfg.jira_api_token]
    ELSE IF Truthy(cfg.jira_bearer_token)
    THEN [scheme |-> "Bearer", secret |-> cfg.jira_bearer_token]
    ELSE [scheme |-> "", secret |-> ""]

Consumers == {"Config.__str__", "_jira_auth_mode", "GenericJiraAPI.__init__"}

ConfigInit ==
    /\ RunIdle
    /\ SubIdle
    /\ ConcIdle
    /\ SrvIdle
    /\ dispatch = None
    /\ planning = None
    /\ gov = None
    /\ config = [pc |-> "start", env |-> None, cfg |-> None,
                 seen |-> [c \in Consumers |-> "unread"]]

(* run.py line 29 / main.py: config = get_config(). *)
GetConfig ==
    /\ config.pc = "start"
    /\ \E env \in Environments :
         config' = [config EXCEPT !.pc = "loaded", !.env = env, !.cfg = get_config(env)]
    /\ UNCHANGED <<runvars, subvars, concvars, srvvars, dispatch, planning, gov>>

(* One of the three readers of the Config works out the auth mode. *)
ReadAuth(c) ==
    /\ config.pc = "loaded"
    /\ config.seen[c] = "unread"
    /\ config' = [config EXCEPT !.seen[c] =
                     CASE c = "Config.__str__" -> ConfigStr(config.cfg)
                       [] c = "_jira_auth_mode" -> jira_auth_mode(config.cfg)
                       [] OTHER -> GenericJiraAPI_init(config.cfg).scheme]
    /\ UNCHANGED <<runvars, subvars, concvars, srvvars, dispatch, planning, gov>>

ConfigNext == GetConfig \/ \E c \in Consumers : ReadAuth(c)

ConfigSpec == ConfigInit /\ [][ConfigNext]_vars

----------------------------------------------------------------------------
(* agents/governance_bot.py: GovernanceBot.process *)

(* Most actions in the model's answer. *)
MaxActions == 2

(* An entry of ai_result["actions"]: a dict with a type, or something      *)
(* that is not a dict (the model writes the list).                         *)
ActionChoices ==
    { [dict |-> TRUE, type |-> "update_issue"],
      [dict |-> TRUE, type |-> "add_comment"],
      [dict |-> TRUE, type |-> "close_issue"],
      [dict |-> FALSE, type |-> "text"] }

(* What call_ollama may return: an error, an answer without actions, or    *)
(* an answer with a list of actions.                                       *)
AiResults ==
    { [error |-> "timeout"], [summary |-> "s"] }
    \cup { [summary |-> "s", actions |-> a] :
             a \in UNION {[1..n -> ActionChoices] : n \in 0..MaxActions} }

(* How a call of JiraAPI.update_issue / add_comment ends: a result without *)
(* "error", a result with it, or an exception.                             *)
JiraOutcomes == {"ok", "error", "raises"}

(* Lines 252-284.  action.get at lines 254-255 is before the try block: an *)
(* entry that is not a dict raises AttributeError out of the method.       *)
(* Inside the try block an exception of the Jira client becomes a failed   *)
(* result, and an unknown type is a failed result without a Jira call.     *)
execute_governance_action(action, outcome) ==
    IF ~action.dict
    THEN [raised |-> "AttributeError", jira |-> <<>>, result |-> None]
    ELSE IF action.type \in {"update_issue", "add_comment"}
    THEN [raised |-> "none", jira |-> <<action.type>>,
          result |-> [success |-> outcome = "ok", action |-> action.type]]
    ELSE [raised |-> "none", jira |-> <<>>,
          result |-> [success |-> FALSE, action |-> action.type]]

(* Lines 286-295. *)
GovErrorResponse(e) == [received |-> TRUE, error |-> e]

GovInit ==
    /\ RunIdle
    /\ SubIdle
    /\ ConcIdle
    /\ SrvIdle
    /\ dispatch = None
    /\ planning = None
    /\ config = None
    /\ gov = [pc |-> "start", jira |-> FALSE, violations |-> 0, ai_result |-> None,
              model_calls |-> 0, jira_calls |-> <<>>, attempted |-> <<>>,
              action_results |-> <<>>, actions_executed |-> 0, out |-> None]

(* Lines 19-25 and 59-75: the bot has a Jira client or not (self.jira),    *)
(* and the issue has violations or not; without violations process()       *)
(* returns at once.                                                        *)
GovStart ==
    /\ gov.pc = "start"
    /\ \E jira \in BOOLEAN, violations \in {0, 2} :
         gov' = IF violations = 0
                THEN [gov EXCEPT !.pc = "done", !.jira = jira, !.violations = 0,
                                 !.out = [received |-> TRUE, violations_found |-> 0,
                                          actions_taken |-> 0, status |-> "compliant"]]
                ELSE [gov EXCEPT !.pc = "model", !.jira = jira, !.violations = violations]
    /\ UNCHANGED <<runvars, subvars, concvars, srvvars, dispatch, planning, config>>

(* Lines 81-95: the model is asked; its error ends the run, and the loop   *)
(* is entered only with a Jira client and a non-empty list of actions.     *)
GovModel ==
    /\ gov.pc = "model"
    /\ \E ai_result \in AiResults :
         gov' = IF "error" \in DOMAIN ai_result
                THEN [gov EXCEPT !.pc = "done", !.ai_result = ai_result,
                                 !.model_calls = @ + 1,
                                 !.out = GovErrorResponse(ai_result.error)]
                ELSE IF gov.jira /\ Get(ai_result, "actions", <<>>) # <<>>
                THEN [gov EXCEPT !.pc = "acting", !.ai_result = ai_result,
                                 !.model_calls = @ + 1]
                ELSE [gov EXCEPT !.pc = "return", !.ai_result = ai_result,
                                 !.model_calls = @ + 1]
    /\ UNCHANGED <<runvars, subvars, concvars, srvvars, dispatch, planning, config>>

(* Lines 96-100 and 116-118: one turn of the loop.  An exception that      *)
(* leaves _execute_governance_action goes to the handler of line 116,      *)
(* which returns the error response.                                       *)
GovAct ==
    /\ gov.pc = "acting"
    /\ \E outcome \in JiraOutcomes :
         LET k == Len(gov.attempted) + 1
             done == execute_governance_action(gov.ai_result.actions[k], outcome)
         IN  gov' =
               IF done.raised # "none"
               THEN [gov EXCEPT !.pc = "done", !.attempted = Append(@, k),
                                !.out = GovErrorResponse(done.raised)]
               ELSE [gov EXCEPT
                       !.pc = IF k = Len(gov.ai_result.actions) THEN "return" ELSE "acting",
                       !.attempted = Append(@, k),
                       !.jira_calls = @ \o done.jira,
                       !.action_results = Append(@, done.result),
                       !.actions_executed = IF done.result.success THEN @ + 1 ELSE @]
    /\ UNCHANGED <<runvars, subvars, concvars, srvvars, dispatch, planning, config>>

(* Lines 104-115: the record process() returns. *)
GovReturn ==
    /\ gov.pc = "return"
    /\ gov' = [gov EXCEPT !.pc = "done",
                          !.out = [received |-> TRUE, violations_found |-> gov.violations,
                                   actions_taken |-> gov.actions_executed,
                                   action_results |-> gov.action_results]]
    /\ UNCHANGED <<runvars, subvars, concvars, srvvars, dispatch, planning, config>>

GovNext == GovStart \/ GovModel \/ GovAct \/ GovReturn

GovSpec == GovInit /\ [][GovNext]_vars

TypeOK == pc \in {"entry", "pending", "loop", "calling", "post", "done", "raised"}

----------------------------------------------------------------------------
(* _substitute_context_variables on its own: every call descriptor of      *)
(* SubCalls against every context the loop of process() can have built     *)
(* from up to MaxSubSteps stored bodies.                                   *)

(* Number of stored step results the context is built from. *)
MaxSubSteps == 2

(* Bodies whose key is the empty string, or contains placeholder text. *)
KeyEmpty == Body("object", {"key"}, JNull, JStr(<<>>), "empty key")
KeyBraces == Body("object", {"key"}, JNull, JStr(<<Ph(CtxKey(2, "id"))>>), "braces")

SubBodies == {ObjBoth, ObjId, ObjKey, KeyEmpty, KeyBraces}

SubStored == [step : {1, 2}, data : SubBodies]

SubHistories == UNION {[1..n -> SubStored] : n \in 0..MaxSubSteps}

(* The context after the successful steps of h, in order. *)
RECURSIVE ContextOf(_)
ContextOf(h) ==
    IF h = <<>> THEN <<>>
    ELSE LET last == h[Len(h)]
         IN  StoreContext(ContextOf(SubSeq(h, 1, Len(h) - 1)), last.step, last.data).context

SubStrings ==
    { <<Lit("/rest/api/3/field")>>,
      <<Ph(CtxKey(1, "id"))>>,
      <<Lit(" "), Ph(CtxKey(1, "id")), Lit(" ")>>,
      <<Ph(CtxKey(1, "result"))>>,
      <<Lit("field/"), Ph(CtxKey(1, "id")), Lit("/sub")>>,
      <<Lit("x/"), Ph(CtxKey(1, "key"))>>,
      <<Ph(CtxKey(1, "key")), Ph(CtxKey(2, "id"))>>,
      <<Lit("q="), Ph(CtxKey(2, "key"))>> }

SubCalls ==
    {[method |-> "GET", endpoint |-> JStr(e)] : e \in SubStrings}
    \cup {[method |-> "POST", endpoint |-> Plain, payload |-> [name |-> JStr(e)]] :
            e \in SubStrings}

SubInit ==
    /\ FnIdle
    /\ RunIdle
    /\ ConcIdle
    /\ SrvIdle
    /\ sub_pc = "ready"
    /\ sub_in \in {[ref |-> "api_call", val |-> a] : a \in SubCalls}
    /\ sub_ctx \in {ContextOf(h) : h \in SubHistories}
    /\ sub_out = None

(* One call of _substitute_context_variables(api_call, context). *)
Substitute ==
    /\ sub_pc = "ready"
    /\ sub_out' = [ref |-> SubstituteRef(sub_in.ref, sub_ctx),
                   val |-> substitute_context_variables(sub_in.val, sub_ctx)]
    /\ sub_pc' = "done"
    /\ UNCHANGED <<sub_in, sub_ctx>>
    /\ UNCHANGED <<runvars, concvars, srvvars, fnvars>>

SubNext == Substitute

SubSpec == SubInit /\ [][SubNext]_vars

----------------------------------------------------------------------------
(* Vocabulary of the properties *)

HasPlan == "plan" \in DOMAIN ai_response

PlanLen == Len(ai_response.plan)

(* The calls made for steps of the plan (the summary comment excluded). *)
StepCalls == SelectSeq(calls, LAMBDA c : c.for = "step")

(* process() returned the run record of lines 234-244. *)
Returned == pc = "done" /\ "execution_results" \in DOMAIN ret

(* The run was vetoed by the safety gate. *)
RunBlocked == pc = "done" /\ "status" \in DOMAIN ret /\ ret.status = "blocked"

(* The call of step k came back unsuccessful and every earlier one succeeded. *)
FirstFailureAt(k) ==
    /\ k \in 1..Len(returned)
    /\ ~returned[k].success
    /\ \A j \in 1..(k - 1) : returned[j].success

(* The plan carries a non-empty safety_checks list. *)
ChecksGiven ==
    /\ HasPlan
    /\ "safety_checks" \in DOMAIN ai_response
    /\ Len(ai_response.safety_checks) > 0

(* Step j of the plan asks for the method DELETE. *)
IsDeleteStep(j) ==
    /\ "api_call" \in DOMAIN ai_response.plan[j]
    /\ "method" \in DOMAIN ai_response.plan[j].api_call
    /\ ai_response.plan[j].api_call.method = "DELETE"

PlanHasDelete == HasPlan /\ \E j \in 1..PlanLen : IsDeleteStep(j)

----------------------------------------------------------------------------
(* C1: when step k is the first step whose call is unsuccessful in an      *)
(* N-step plan that passed the gate, process returns exactly k step        *)
(* results, steps_completed = k-1, total_steps = N, and the run is Aborted *)
(* (steps_completed < total_steps).                                        *)
C1_FailFastResult ==
    \A k \in 1..Len(returned) :
        (pc = "done" /\ FirstFailureAt(k)) =>
            /\ Returned
            /\ Len(ret.execution_results) = k
            /\ ret.steps_completed = k - 1
            /\ ret.total_steps = PlanLen
            /\ ret.steps_completed < ret.total_steps

(* A three-step plan whose second step failed has returned. *)
C1_Witness ==
    /\ Returned
    /\ PlanLen = 3
    /\ FirstFailureAt(2)
    /\ ret.steps_completed = 1

(* C2: once a step's call has returned success = false, no call for a      *)
(* later step is issued: the step calls of a run end at the first failed   *)
(* step.                                                                   *)
C2_NoCallAfterFailure ==
    [][(\E k \in 1..Len(returned) : ~returned[k].success)
         => StepCalls' = StepCalls /\ returned' = returned]_vars

(* The first step of a longer plan failed and the run has ended. *)
C2_Witness ==
    /\ pc = "done"
    /\ HasPlan
    /\ PlanLen > 1
    /\ FirstFailureAt(1)
    /\ Len(StepCalls) = 1

(* C3: with a non-empty safety_checks list and a DELETE step anywhere in   *)
(* the plan, no step of the plan is executed, the steps before the DELETE  *)
(* step included.                                                          *)
C3_VetoBeforeAnyStep ==
    (pc # "pending" /\ ChecksGiven /\ PlanHasDelete) =>
        /\ calls = <<>>
        /\ returned = <<>>
        /\ execution_results = <<>>
        /\ pc = "done"

(* A blocked plan whose only DELETE step is its last one, after two        *)
(* non-destructive steps.                                                  *)
C3_Witness ==
    /\ RunBlocked
    /\ PlanLen = 3
    /\ IsDeleteStep(3)
    /\ ~IsDeleteStep(1)
    /\ ~IsDeleteStep(2)

(* C4: a blocked run returns a record that marks the run as blocked,       *)
(* carries a block reason, the plan's safety_checks and the full plan, and *)
(* no step results.                                                        *)
C4_BlockedRecord ==
    (pc = "done" /\ ChecksGiven /\ PlanHasDelete) =>
        /\ DOMAIN ret = {"status", "reason", "safety_checks", "plan"}
        /\ ret.status = "blocked"
        /\ ret.reason # ""
        /\ ret.safety_checks = ai_response.safety_checks
        /\ ret.plan = ai_response.plan
        /\ execution_results = <<>>

(* A blocked two-step plan has been returned in full. *)
C4_Witness ==
    /\ RunBlocked
    /\ PlanLen = 2
    /\ Len(ret.plan) = 2
    /\ IsDeleteStep(2)

(* C5: a plan with a DELETE step whose safety_checks list is empty or      *)
(* absent is not blocked; its steps, the DELETE step included, go through  *)
(* the fail-fast loop: each is called with its own method, in plan order,  *)
(* until the plan ends or a call fails.                                    *)
C5_GateNeedsChecks ==
    (pc # "pending" /\ PlanHasDelete /\ ~ChecksGiven) =>
        /\ ~RunBlocked
        /\ \A j \in 1..Len(StepCalls) :
              StepCalls[j].method = Get(ai_response.plan[j].api_call, "method", "GET")
        /\ Returned =>
              \/ Len(StepCalls) = PlanLen
              \/ FirstFailureAt(Len(StepCalls))

(* A DELETE call was issued and answered successfully in a run whose plan  *)
(* has no safety_checks.                                                   *)
C5_Witness ==
    /\ Returned
    /\ ~ChecksGiven
    /\ \E j \in 1..Len(returned) :
          /\ IsDeleteStep(j)
          /\ StepCalls[j].request_method = "DELETE"
          /\ returned[j].success

----------------------------------------------------------------------------
(* Calls are made one at a time and in the order of the plan list: call j  *)
(* is the call of plan entry j, and it is issued only when the previous    *)
(* call has returned.                                                      *)
CallsInPlanOrder ==
    /\ \A j \in 1..Len(StepCalls) : StepCalls[j].pos = j
    /\ Len(StepCalls) = Len(returned) + (IF pc = "calling" THEN 1 ELSE 0)

(* C6: step calls are issued one at a time and only in ascending           *)
(* step-index order: a call is issued only after the previous one has      *)
(* returned, and the indices of the executed steps form an ascending       *)
(* sequence.                                                               *)
C6_AscendingStepIndex ==
    /\ Len(StepCalls) = Len(returned) + (IF pc = "calling" THEN 1 ELSE 0)
    /\ \A a, b \in 1..Len(StepCalls) : a < b => StepCalls[a].step < StepCalls[b].step

(* C7: a context key that has been written keeps the value it was first    *)
(* given and is never deleted.                                             *)
C7_ContextMonotonic ==
    [][\A j \in 1..Len(context) :
          /\ CtxHas(context', context[j].k)
          /\ CtxGet(context', context[j].k) = context[j].v]_vars

(* C8: after step k succeeds, step_<k>_result equals the body the executor *)
(* returned for step k, and still does after every later step.             *)
C8_ResultKept ==
    \A j \in 1..Len(returned) :
        returned[j].success =>
            /\ CtxHas(context, CtxKey(StepCalls[j].step, "result"))
            /\ CtxGet(context, CtxKey(StepCalls[j].step, "result")) = returned[j].data

(* The step just returned left key k as it was. *)
NotWritten(k) ==
    /\ CtxHas(context', k) <=> CtxHas(context, k)
    /\ CtxHas(context, k) => CtxGet(context', k) = CtxGet(context, k)

(* C9: on a successful step n with any body, step_<n>_id is recorded       *)
(* exactly when the body is a mapping with a top-level id, step_<n>_key    *)
(* exactly when it is a mapping with a top-level key, step_<n>_result      *)
(* always, with the full body; a non-mapping body causes no fault and the  *)
(* run continues.                                                          *)
C9_RecordOnSuccess ==
    [][(pc = "calling" /\ Len(returned') = Len(returned) + 1
          /\ returned'[Len(returned')].success)
        => LET data == returned'[Len(returned')].data
               n == inflight.step
           IN  /\ pc' = "loop"
               /\ Len(execution_results') = Len(execution_results) + 1
               /\ CtxHas(context', CtxKey(n, "result"))
               /\ CtxGet(context', CtxKey(n, "result")) = data
               /\ IF data.kind = "object" /\ "id" \in data.has
                  THEN /\ CtxHas(context', CtxKey(n, "id"))
                       /\ CtxGet(context', CtxKey(n, "id")) = data.id
                  ELSE NotWritten(CtxKey(n, "id"))
               /\ IF data.kind = "object" /\ "key" \in data.has
                  THEN /\ CtxHas(context', CtxKey(n, "key"))
                       /\ CtxGet(context', CtxKey(n, "key")) = data.key
                  ELSE NotWritten(CtxKey(n, "key"))]_vars

(* C10: when step i is resolved the context holds entries for exactly the  *)
(* steps executed before it, all of which succeeded; every value an        *)
(* earlier step wrote is readable; a failed step writes no entry.          *)
C10_ContextAtResolve ==
    /\ pc = "calling" =>
          /\ \A j \in 1..Len(returned) : returned[j].success
          /\ {k.step : k \in CtxKeys(context)} =
                {StepCalls[j].step : j \in 1..Len(returned)}
          /\ \A j \in 1..Len(returned) :
                LET data == returned[j].data
                    n == StepCalls[j].step
                IN  /\ CtxGet(context, CtxKey(n, "result")) = data
                    /\ "id" \in data.has => CtxGet(context, CtxKey(n, "id")) = data.id
                    /\ "key" \in data.has => CtxGet(context, CtxKey(n, "key")) = data.key
    /\ \A j \in 1..Len(returned) :
          ~returned[j].success =>
              {k.step : k \in CtxKeys(context)} = {StepCalls[m].step : m \in 1..(j - 1)}

----------------------------------------------------------------------------
(* C12: a placeholder whose key is absent from the context is left as the  *)
(* literal {{key}} text in the resolved call, nothing is raised, and the   *)
(* step's call is issued with the unresolved text.                         *)
C12_UnknownPlaceholderKept ==
    pc = "calling" =>
        LET ep == ai_response.plan[i].api_call.endpoint
        IN  \A m \in 1..Len(ep.s) :
                (ep.s[m].ph /\ ep.s[m].key \notin CtxKeys(context)) =>
                    /\ inflight.endpoint.t = "str"
                    /\ \E q \in 1..Len(inflight.endpoint.s) : inflight.endpoint.s[q] = ep.s[m]
                    /\ calls[Len(calls)] = inflight
                    /\ calls[Len(calls)].pos = i

(* A step that names step_1_id is in flight while the context holds        *)
(* entries of another step only.                                           *)
C12_Witness ==
    /\ pc = "calling"
    /\ context # <<>>
    /\ CtxKey(1, "id") \notin CtxKeys(context)
    /\ inflight.endpoint.t = "str"
    /\ \E q \in 1..Len(inflight.endpoint.s) : inflight.endpoint.s[q] = Ph(CtxKey(1, "id"))

(* C15: when the planner's answer is not a mapping or has no plan, the run *)
(* never starts: process returns an error object carrying the raw answer,  *)
(* no step call and no other API call is made, and no plan is made up.     *)
C15_PlanErrorNoRun ==
    (pc \notin {"entry", "pending", "raised"} /\ ~HasPlan) =>
        /\ pc = "done"
        /\ DOMAIN ret = {"error", "raw_response"}
        /\ ret.raw_response = ai_response
        /\ calls = <<>>
        /\ returned = <<>>
        /\ execution_results = <<>>

(* The planner answered with something that is not a mapping. *)
C15_Witness ==
    /\ pc = "done"
    /\ "notdict" \in DOMAIN ai_response
    /\ "raw_response" \in DOMAIN ret

(* C16: execute_api_call never raises: with a response it returns          *)
(* success = (status_code < 400), the status code and the body; when the   *)
(* transport fails, or the endpoint is not a string, {success: false,      *)
(* error}.                                                                 *)
C16_ExecutorNeverRaises ==
    /\ pc = "raised" => calls = <<>>
    /\ \A j \in 1..Len(returned) :
          LET r == returned[j]
          IN  /\ "success" \in DOMAIN r
              /\ IF "status_code" \in DOMAIN r
                 THEN /\ StepCalls[j].endpoint.t = "str"
                      /\ r.success = (r.status_code < 400)
                      /\ "data" \in DOMAIN r
                 ELSE /\ r.success = FALSE
                      /\ "error" \in DOMAIN r

(* A call whose endpoint resolved to an integer came back as a failure,    *)
(* after an answered call.                                                 *)
C16_Witness ==
    \E j \in 1..Len(returned) :
        /\ StepCalls[j].endpoint.t = "int"
        /\ ~returned[j].success
        /\ "status_code" \in DOMAIN returned[1]

(* The call failed in the sense of C17: no response, a status of 400 or    *)
(* more, or a body that does not parse.                                    *)
CallFailed(r) ==
    \/ "error" \in DOMAIN r
    \/ r.status_code >= 400
    \/ r.data = RawResponse

(* C17: a step whose call fails by timeout, network error, a status that   *)
(* is not 2xx/3xx, or an unparsable body is recorded as failed and the run *)
(* aborts right after it.                                                  *)
C17_FailedCallAborts ==
    \A j \in 1..Len(returned) :
        CallFailed(returned[j]) =>
            /\ Len(execution_results) = j
            /\ ~execution_results[j].success
            /\ Len(StepCalls) = j

(* C18: the number of step calls issued equals the number of step results  *)
(* recorded, plus one while a call is in flight, and no step is called     *)
(* twice.                                                                  *)
C18_OneCallOneResult ==
    /\ Len(StepCalls) = Len(execution_results) + (IF pc = "calling" THEN 1 ELSE 0)
    /\ \A a, b \in 1..Len(StepCalls) : a # b => StepCalls[a].pos # StepCalls[b].pos

(* Every step of the plan was attempted and none failed: each call came    *)
(* back successful and handling it raised nothing.                         *)
AllStepsSucceeded ==
    /\ Len(returned) = PlanLen
    /\ \A j \in 1..Len(returned) : returned[j].success
    /\ "error" \notin DOMAIN ret

C20_NeverRaises ==
    /\ pc # "raised"
    /\ pc = "done" => "none" \notin DOMAIN ret

----------------------------------------------------------------------------
(* Vocabulary of the substitution properties *)

(* The text of a token sequence. *)
RECURSIVE Render(_)
Render(toks) ==
    IF toks = <<>> THEN ""
    ELSE (IF Head(toks).ph
          THEN "{{step_" \o ToString(Head(toks).key.step) \o "_" \o Head(toks).key.field \o "}}"
          ELSE Head(toks).text) \o Render(Tail(toks))

(* toks with each placeholder of a key of c replaced, once and in place,   *)
(* by the string form of that key's value; everything else as it is.       *)
RECURSIVE Expected(_, _)
Expected(toks, c) ==
    IF toks = <<>> THEN <<>>
    ELSE (IF Head(toks).ph /\ CtxHas(c, Head(toks).key)
          THEN StrOf(CtxGet(c, Head(toks).key))
          ELSE <<Head(toks)>>) \o Expected(Tail(toks), c)

(* The string is, after trimming, exactly one placeholder. *)
ExactlyOnePlaceholder(toks) == Len(Strip(toks)) = 1 /\ Strip(toks)[1].ph

(* It has a placeholder whose key is in the context. *)
HasKnownPlaceholder(toks, c) ==
    \E m \in 1..Len(toks) : toks[m].ph /\ CtxHas(c, toks[m].key)

(* The string leaves of the call descriptor handed in, and what became of  *)
(* each in the result.                                                     *)
LeafNames == {"endpoint"} \cup (IF "payload" \in DOMAIN sub_in.val THEN {"name"} ELSE {})
InLeaf(f) == IF f = "endpoint" THEN sub_in.val.endpoint ELSE sub_in.val.payload.name
OutLeaf(f) == IF f = "endpoint" THEN sub_out.val.endpoint ELSE sub_out.val.payload.name

IsString(v) == "t" \in DOMAIN v /\ v.t = "str"

(* C11: a string that is, after trimming, exactly one placeholder of a     *)
(* known key resolves to the raw context value with its type; a known      *)
(* placeholder embedded in a larger string resolves to a string with the   *)
(* value's string form inserted.                                           *)
C11_TypePreserving ==
    sub_pc = "done" =>
        \A f \in LeafNames :
            LET toks == InLeaf(f).s
            IN  IF ExactlyOnePlaceholder(toks)
                THEN CtxHas(sub_ctx, Strip(toks)[1].key) =>
                        OutLeaf(f) = CtxGet(sub_ctx, Strip(toks)[1].key)
                ELSE HasKnownPlaceholder(toks, sub_ctx) =>
                        /\ IsString(OutLeaf(f))
                        /\ Render(OutLeaf(f).s) = Render(Expected(toks, sub_ctx))

(* C13: the result is a deep copy of the same shape: it is another object  *)
(* than the argument, for the empty context too, and the argument is as it *)
(* was.                                                                    *)
C13_DeepCopy ==
    sub_pc = "done" =>
        /\ sub_out.ref # sub_in.ref
        /\ DOMAIN sub_out.val = DOMAIN sub_in.val
        /\ sub_in.val \in SubCalls

(* C14: a string leaf that is not exactly one placeholder resolves to a    *)
(* string: the input with every occurrence of every known placeholder      *)
(* replaced by the string form of its value and all other text intact,     *)
(* whatever the values and the order of the context entries.               *)
C14_TextualSubstitution ==
    sub_pc = "done" =>
        \A f \in LeafNames :
            ~ExactlyOnePlaceholder(InLeaf(f).s) =>
                /\ IsString(OutLeaf(f))
                /\ Render(OutLeaf(f).s) = Render(Expected(InLeaf(f).s, sub_ctx))

----------------------------------------------------------------------------
(* C21: a run that attempted at least one step and has returned carries    *)
(* the step result of every attempted step, whatever way it stopped.       *)
C21_AttemptedResultsReturned ==
    (pc = "done" /\ Len(StepCalls) > 0) =>
        /\ "execution_results" \in DOMAIN ret
        /\ Len(ret.execution_results) = Len(StepCalls)
        /\ \A j \in 1..Len(StepCalls) : ret.execution_results[j].result = returned[j]

(* C23: the only external API calls a run issues are the calls of its      *)
(* attempted steps; the summary is not delivered by the run itself.        *)
C23_OnlyStepCalls ==
    \A j \in 1..Len(calls) : calls[j].for = "step"

(* C24: every run that has entered its step loop eventually returns one    *)
(* of the terminal records: a call never stays pending forever.            *)
C24_RunTerminates ==
    (pc = "loop") ~> (pc = "done")

(* C26: in a run whose plan has a non-empty safety_checks list no request  *)
(* with the HTTP method DELETE is sent, in whatever letter case the plan   *)
(* spells the method.                                                      *)
C26_NoDeleteUnderChecks ==
    ChecksGiven =>
        \A j \in 1..Len(calls) : calls[j].request_method # "DELETE"

----------------------------------------------------------------------------
(* C22: under every interleaving of two runs on one agent instance, each   *)
(* call of a run is its plan entry resolved from the bodies that run's own *)
(* earlier steps returned, and from nothing else.                          *)
C22_PrivateContext ==
    \A run \in RunIds :
        \A j \in 1..Len(conc_sent[run]) :
            conc_sent[run][j] =
                substitute_context_variables(conc_plan[run][j].api_call,
                                             ContextOf(SubSeq(conc_got[run], 1, j - 1)))

(* Both runs have stored a result and the worker's run has then resolved a *)
(* placeholder of its second step to the id its own first step returned.   *)
C22_Witness ==
    /\ Len(conc_got["test"]) >= 1
    /\ Len(conc_sent["worker"]) = 2
    /\ conc_plan["worker"][2].api_call.endpoint = Exact
    /\ conc_sent["worker"][2].endpoint = JInt(1001)

----------------------------------------------------------------------------
(* Vocabulary of the server properties *)

(* How many times task_done was called for the job with this id. *)
DoneCount(id) == Cardinality({k \in 1..Len(task_done) : task_done[k] = id})

(* The issue of a payload as the webhook carried it: its key and fields. *)
PayloadIssue(payload) ==
    IF "issue" \in DOMAIN payload THEN payload.issue
    ELSE [key |-> payload.issueKey,
          fields |-> [summary |-> Get(payload, "summary", ""),
                      issuetype |-> [name |-> Get(payload, "issueType", "Task")]]]

ProcessOnlyAgents == {"admin_validator", "governance_bot", "pm_enhancer"}

(* C25: a request whose x-webhook-secret differs from the configured       *)
(* secret is answered 401, before the body is read, and enqueues no job.   *)
C25_BadSecretRejected ==
    (last_response # None /\ last_response.secret # ExpectedSecret) =>
        /\ last_response.status = 401
        /\ ~last_response.body_read
        /\ ~last_response.queued

(* C27: an agent that exposes only process(issue_data) is handed the       *)
(* payload's issue: the key it operates on is payload.issueKey, the fields *)
(* it reads are the payload's fields, and it reaches its planning step.    *)
C27_AgentGetsIssue ==
    \A k \in 1..Len(handled) :
        (handled[k].agent_name \in ProcessOnlyAgents /\ handled[k].invoked # <<>>) =>
            LET call == handled[k].invoked[1]
            IN  /\ call.raised = "none"
                /\ call.seen_key = handled[k].payload.issueKey
                /\ call.seen_fields = PayloadIssue(handled[k].payload).fields
                /\ call.planned

(* C28: task_done is never called twice for a job, only for a job that was *)
(* taken, and every job put on the queue is eventually taken and marked    *)
(* done, whether its handling ended in a result or in an error result.     *)
C28_EveryJobDoneOnce ==
    /\ [](\A id \in 1..MaxRequests :
            /\ DoneCount(id) <= 1
            /\ DoneCount(id) = 1 => \E k \in 1..Len(taken) : taken[k] = id)
    /\ \A id \in 1..MaxRequests :
          (Len(enqueued) >= id) ~> (DoneCount(id) = 1)

(* Two jobs were queued; the first ended in an error result, the second in *)
(* a result, and both are marked done.                                     *)
C28_Witness ==
    /\ Len(handled) = 2
    /\ "error" \in DOMAIN handled[1].result
    /\ "error" \notin DOMAIN handled[2].result
    /\ DoneCount(1) = 1
    /\ DoneCount(2) = 1

(* C29: each accepted request has put exactly one job on the queue, with   *)
(* the agent name of its endpoint; jobs are taken in the order they were   *)
(* put; at most one job is being handled at any time.                      *)
C29_OneJobFifo ==
    /\ (last_response # None /\ last_response.status = 200) =>
          /\ last_response.queued
          /\ Len(enqueued) >= 1
          /\ enqueued[Len(enqueued)].path = last_response.path
    /\ Len(enqueued) <= RequestCount
    /\ \A k \in 1..Len(enqueued) :
          /\ enqueued[k].id = k
          /\ enqueued[k].job.agent_name =
                CASE enqueued[k].path = "/agents/l1-triage" -> "l1_triage"
                  [] enqueued[k].path = "/agents/custom-field-creator" -> "admin_validator"
                  [] enqueued[k].path = "/agents/pm-enhancer" -> "pm_enhancer"
                  [] enqueued[k].path = "/agents/governance-bot" -> "governance_bot"
                  [] OTHER -> "planner"
    /\ \A k \in 1..Len(taken) : taken[k] = k
    /\ Len(jobs) = Len(enqueued) - Len(taken)
    /\ \A k \in 1..Len(jobs) : jobs[k] = enqueued[Len(taken) + k].job
    /\ Cardinality({w \in Workers : worker_pc[w] = "job"}) <= 1
    /\ Len(taken) - Len(task_done) = Cardinality({w \in Workers : worker_pc[w] = "job"})

(* The second of two queued jobs waits while the first is being handled.   *)
C29_Witness ==
    /\ Len(enqueued) = 2
    /\ enqueued[1].job.agent_name # enqueued[2].job.agent_name
    /\ taken = <<1>>
    /\ Len(jobs) = 1
    /\ \E w \in Workers : worker_pc[w] = "job" /\ worker_job[w].id = 1

(* C30: process_with_agent lets no exception out; for an agent that is not *)
(* in available_agents, and always for 'planner', it returns an error      *)
(* result that lists the available agents and invokes no agent; what an    *)
(* agent raises comes back as an error result.                             *)
C30_ProcessNeverRaises ==
    \A k \in 1..Len(handled) :
        LET h == handled[k]
        IN  /\ h.escaped = "none"
            /\ (h.agent_name \notin available_agents \/ h.agent_name = "planner") =>
                  /\ h.invoked = <<>>
                  /\ "error" \in DOMAIN h.result
                  /\ "available_agents" \in DOMAIN h.result
                  /\ h.result.available_agents = available_agents
            /\ (h.invoked # <<>> /\ h.invoked[1].raised # "none") =>
                  /\ "error" \in DOMAIN h.result
                  /\ h.result.error = h.invoked[1].raised

(* A planner job, a job for an agent whose initialisation failed and a job *)
(* whose agent raised have all been handled.                               *)
C30_Witness ==
    /\ "governance_bot" \notin available_agents
    /\ \E a, b \in 1..Len(handled) :
          /\ handled[a].agent_name = "planner"
          /\ handled[b].agent_name = "admin_validator"
          /\ handled[b].invoked # <<>>
          /\ handled[b].invoked[1].raised = "KeyError"
          /\ "error" \in DOMAIN handled[b].result

(* C31: for each handled job at most one agent entry point is invoked and  *)
(* it is invoked at most once: process_ticket when the agent has it,       *)
(* process only when process_ticket is absent, and no second invocation    *)
(* follows a first one, also when the first one raised an AttributeError.  *)
C31_OneInvocationPerJob ==
    \A j \in 1..Len(dispatch.log) :
        LET h == dispatch.log[j]
        IN  /\ Len(h.invoked) <= 1
            /\ \A k \in 1..Len(h.invoked) :
                 /\ hasattr(h.agent, "process_ticket") => h.invoked[k] = "process_ticket"
                 /\ h.invoked[k] = "process" => ~hasattr(h.agent, "process_ticket")

(* The summary comment's call, when one was made. *)
CommentCalls == SelectSeq(calls, LAMBDA c : c.for = "comment")

(* C32: the counts in the posted summary comment, successful/total steps,  *)
(* agree with steps_completed and total_steps of the result returned for   *)
(* the same run, also for a run aborted before the last step of the plan.  *)
C32_CommentCountsAgree ==
    Returned =>
        \A j \in 1..Len(CommentCalls) :
            /\ CommentCalls[j].counts.successful = ret.steps_completed
            /\ CommentCalls[j].counts.total = ret.total_steps

(* C33: the summary comment is posted only after the last attempted step   *)
(* has returned and never changes the run's outcome: however the comment   *)
(* call ends, the returned execution_results, steps_completed and          *)
(* total_steps are those of the steps; a blocked or plan-error run posts   *)
(* no comment.                                                             *)
C33_CommentLeavesOutcome ==
    /\ \A j \in 1..Len(calls) :
         calls[j].for = "comment" =>
            /\ j = Len(calls)
            /\ Len(returned) = j - 1
            /\ inflight = None
            /\ Returned
            /\ ret.execution_results = execution_results
            /\ ret.steps_completed = SuccessCount(execution_results)
            /\ ret.total_steps = PlanLen
    /\ (pc = "done" /\ ~Returned) => CommentCalls = <<>>
    /\ (pc = "done" /\ Returned) => Len(CommentCalls) = 1

(* A run aborted at the first of its two steps whose comment call raised. *)
C33_Witness ==
    /\ Returned
    /\ PlanLen = 2
    /\ Len(execution_results) = 1
    /\ CommentCalls[1].outcome = "raised"

(* The intent the first mode:pm, mode:admin or mode:gov label stands for,  *)
(* "" when the issue has no such label.                                    *)
ModeIntent(issue) ==
    LET modes == { k \in DOMAIN issue.labels :
                     Lower(issue.labels[k]) \in
                        {<<"mode:", "pm">>, <<"mode:", "admin">>, <<"mode:", "gov">>} }
        k1 == CHOOSE k \in modes : \A j \in modes : k <= j
    IN  IF modes = {} THEN ""
        ELSE CASE Lower(issue.labels[k1])[2] = "pm" -> "create_jsm_form"
               [] Lower(issue.labels[k1])[2] = "admin" -> "create_custom_field"
               [] OTHER -> "governance_preflight_only"

(* A summary/description heuristic of lines 45-50 applies to the issue. *)
HeuristicMatches(issue) ==
    \/ \E n \in {<<"custom", "field">>, <<"workflow">>, <<"form">>} :
          InText(n, Lower(issue.summary))
    \/ \E n \in {<<"create", "field">>, <<"transition">>, <<"request", "form">>, <<"jsm">>} :
          InText(n, Lower(issue.description.words))

RuleMatches(issue) == ModeIntent(issue) # "" \/ HeuristicMatches(issue)

(* C34: plan(issue, llm) consults the LLM only when no rule matches, and   *)
(* then exactly once; a mode:pm, mode:admin or mode:gov label decides the  *)
(* intent before any summary/description heuristic; a rule-matched plan    *)
(* gets the default steps of its intent.                                   *)
C34_LlmOnlyWithoutRule ==
    planning.pc # "idle" =>
        LET issue == planning.issue
            out == planning.out
        IN  /\ planning.llm_calls = (IF RuleMatches(issue) THEN 0 ELSE 1)
            /\ (planning.pc = "done" /\ ModeIntent(issue) # "") =>
                    "intent" \in DOMAIN out /\ out.intent = ModeIntent(issue)
            /\ (planning.pc = "done" /\ RuleMatches(issue)) =>
                    /\ "intent" \in DOMAIN out
                    /\ out.intent = "create_custom_field" =>
                          out.steps = <<PlanStep("admin_validator", "create_custom_field")>>
                    /\ out.intent = "update_workflow" =>
                          out.steps = <<PlanStep("governance_bot", "workflow_preflight"),
                                        PlanStep("governance_bot", "update_workflow")>>
                    /\ out.intent = "create_jsm_form" =>
                          out.steps = <<PlanStep("pm_enhancer", "create_jsm_form")>>

(* The model's text holds a JSON object that satisfies the Plan schema. *)
HasValidObject(text) ==
    /\ text.str
    /\ \E k \in DOMAIN text.segs :
          text.segs[k].seg = "object" /\ SatisfiesPlan(text.segs[k].value)

(* C35: build_llm_plan always returns a Plan and never raises on bad model *)
(* output: without a parsable JSON object that satisfies the Plan schema   *)
(* it returns the fallback Plan (intent other, confidence 0, no steps),    *)
(* and a parsed plan's confidence lies within 0..1.                        *)
C35_LlmPlanNeverRaises ==
    (planning.pc = "done" /\ planning.text # None) =>
        /\ "intent" \in DOMAIN planning.out
        /\ planning.out.intent \in Intent
        /\ planning.out.confidence \in 0..100
        /\ ~HasValidObject(planning.text) =>
              /\ planning.out.intent = "other"
              /\ planning.out.confidence = 0
              /\ planning.out.steps = <<>>

(* The model answered with one valid object whose confidence is 1.5 and    *)
(* the plan came back with confidence 1.                                   *)
C35_Witness ==
    /\ planning.pc = "done"
    /\ planning.text # None
    /\ planning.text.str
    /\ Len(planning.text.segs) = 1
    /\ planning.text.segs[1].seg = "object"
    /\ SatisfiesPlan(planning.text.segs[1].value)
    /\ planning.text.segs[1].value.confidence = JInt(150)
    /\ planning.out.intent = "update_workflow"
    /\ planning.out.confidence = 100

(* A variable is set when it has a non-empty value (config.py itself       *)
(* reports an empty JIRA_BASE_URL as "not set").                           *)
IsSet(v) == v # "None" /\ v # ""

(* The auth mode a reader reported, under its name as a mode. *)
ModeOf(seen) ==
    CASE seen = "Basic" -> "cloud-basic"
      [] seen = "Bearer" -> "bearer"
      [] seen = "" -> "none"
      [] OTHER -> seen

(* C36: get_config assigns the legacy JIRA_TOKEN to at most one            *)
(* credential: as API token when JIRA_EMAIL is set and JIRA_API_TOKEN is   *)
(* not, as bearer token when JIRA_EMAIL and JIRA_BEARER_TOKEN are not set, *)
(* never over an explicitly set token; the auth mode is cloud-basic with   *)
(* email and API token, else bearer with a bearer token, else none, the    *)
(* same for Config.__str__, _jira_auth_mode and GenericJiraAPI.__init__.   *)
C36_LegacyTokenOnce ==
    config.pc = "loaded" =>
        LET env == config.env
            cfg == config.cfg
            legacy == env["JIRA_TOKEN"]
            as_api == cfg.jira_api_token = legacy /\ env["JIRA_API_TOKEN"] # legacy
            as_bearer == cfg.jira_bearer_token = legacy /\ env["JIRA_BEARER_TOKEN"] # legacy
            mode == IF IsSet(cfg.jira_email) /\ IsSet(cfg.jira_api_token) THEN "cloud-basic"
                    ELSE IF IsSet(cfg.jira_bearer_token) THEN "bearer"
                    ELSE "none"
        IN  /\ ~(as_api /\ as_bearer)
            /\ as_api <=> (IsSet(legacy) /\ IsSet(env["JIRA_EMAIL"])
                              /\ ~IsSet(env["JIRA_API_TOKEN"]))
            /\ as_bearer <=> (IsSet(legacy) /\ ~IsSet(env["JIRA_EMAIL"])
                                 /\ ~IsSet(env["JIRA_BEARER_TOKEN"]))
            /\ IsSet(env["JIRA_API_TOKEN"]) => cfg.jira_api_token = env["JIRA_API_TOKEN"]
            /\ IsSet(env["JIRA_BEARER_TOKEN"]) =>
                    cfg.jira_bearer_token = env["JIRA_BEARER_TOKEN"]
            /\ cfg.jira_email = env["JIRA_EMAIL"]
            /\ \A c \in Consumers :
                    config.seen[c] # "unread" => ModeOf(config.seen[c]) = mode

(* Email and legacy token set, no API token, no bearer token: the legacy   *)
(* token became the API token only and all three readers say cloud-basic.  *)
C36_Witness ==
    /\ config.pc = "loaded"
    /\ config.env["JIRA_EMAIL"] = "me@example.com"
    /\ config.env["JIRA_API_TOKEN"] = "None"
    /\ config.env["JIRA_BEARER_TOKEN"] = "None"
    /\ config.env["JIRA_TOKEN"] = "legacy-token"
    /\ config.cfg.jira_api_token = "legacy-token"
    /\ config.cfg.jira_bearer_token = "None"
    /\ \A c \in Consumers : ModeOf(config.seen[c]) = "cloud-basic"

(* The actions the model returned in this run. *)
GovActions == IF gov.ai_result # None THEN Get(gov.ai_result, "actions", <<>>) ELSE <<>>

(* C37: GovernanceBot.process attempts every action the model returned, in *)
(* order, even after one has failed, and reports actions_taken equal to    *)
(* the number of successful actions; without a violation it calls neither  *)
(* the model nor Jira, without Jira credentials it executes no action, and *)
(* an action of unknown type is reported as failed without a Jira call.    *)
C37_EveryActionAttempted ==
    gov.pc = "done" =>
        /\ gov.violations = 0 => gov.model_calls = 0 /\ gov.jira_calls = <<>>
        /\ ~gov.jira => gov.attempted = <<>> /\ gov.jira_calls = <<>>
        /\ (gov.jira /\ gov.ai_result # None /\ "error" \notin DOMAIN gov.ai_result) =>
              /\ gov.attempted = [k \in 1..Len(GovActions) |-> k]
              /\ "actions_taken" \in DOMAIN gov.out
              /\ gov.out.actions_taken =
                    Cardinality({k \in 1..Len(gov.action_results) :
                                    gov.action_results[k].success})
              /\ Len(gov.action_results) = Len(GovActions)
              /\ \A k \in 1..Len(GovActions) :
                    /\ gov.action_results[k].action = GovActions[k].type
                    /\ GovActions[k].type \notin {"update_issue", "add_comment"} =>
                          ~gov.action_results[k].success
              /\ Len(gov.jira_calls) =
                    Cardinality({k \in 1..Len(GovActions) :
                                    GovActions[k].type \in {"update_issue", "add_comment"}})

====
